---- MODULE Spec2Model ----
(***************************************************************************)
(* Verification model of the secure_agent_flow custom tools:               *)
(*   - SCATool.wait_for_job_completion   (src/custom_tools/sca_tool.py)    *)
(*   - AWSRoleCreator._run and create_least_privilege_role_from_events     *)
(*                              (src/custom_tools/custom_role_creator.py)  *)
(*   - CloudTrailEventsFetcher cleanup_iam_users and fetch_events          *)
(*                              (src/custom_tools/role_fetcher.py)         *)
(* Each tool is a sequential handler (the fetcher adds a thread pool); a   *)
(* tool is modelled by its own specification, with the variables of the    *)
(* other tools held at their idle values.                                  *)
(***************************************************************************)
EXTENDS Integers, Sequences, FiniteSets, TLC

VARIABLES
    \* ---- SCATool.wait_for_job_completion
    waitPc,            \* position in wait_for_job_completion
    elapsed,           \* time.time() - start_time, in seconds
    polls,             \* number of get_job_status_debug_mode calls made
    sleeps,            \* number of time.sleep(poll_interval) calls made
    status_response,   \* the response of the last status call (None before)
    observed,          \* the lower-cased statuses of the first polls
    waitResult,        \* how the call ended: returned payload or raised error
    \* ---- AWSRoleCreator (provision)
    provInput,         \* the arguments every invocation is made with
    provPc,            \* position in _run
    callNo,            \* number of invocations started
    iam_client,        \* "default" (self.iam_client) or "assumed" session client
    max_session_duration, \* the local of _run after clamping
    attachIdx,         \* i of 'for i, policy in enumerate(permission_policies)'
    attached_policies, \* names of the policies put_role_policy accepted
    remoteCalls,       \* the remote calls made by the current invocation
    roles,             \* IAM roles existing in the target account
    rolePolicies,      \* inline policies attached to roles in the account
    provLog,           \* per finished invocation: its result and remote calls
    \* ---- CloudTrailEventsFetcher (fetch_events and cleanup_users)
    fetInput,          \* the arguments of CloudTrailEventsFetcher._run
    fetPc,             \* position of the calling thread
    session,           \* None (default credentials) or "assumed"
    accountUsers,      \* the IAM users of the account, as list_users pages them
    fetCalls,          \* the remote calls made so far by the calling thread
    lookupCalls,       \* fetch: the lookup_events calls made by the pool's tasks
    usernames,         \* cleanup: the usernames handed to _delete_iam_users
    cleanIdx,          \* cleanup: position of the loop over usernames
    cleanup_results,   \* cleanup: the per-user results
    iam_users,         \* fetch: the users whose events are collected
    submitted,         \* fetch: number of tasks submitted to the executor
    futures,           \* fetch: per task, its state and its result
    users_data,        \* fetch: the aggregate entries
    errors,            \* fetch: the aggregate errors
    total_events,      \* fetch: the aggregate event count
    fetResult,         \* the JSON returned
    \* ---- CloudTrailEventsFetcher._get_cloudtrail_events_for_user, step by step
    lookPc,            \* position in _get_cloudtrail_events_for_user
    lookInput,         \* the username, the max_events argument, the trail's pages
    pagesRequested,    \* number of pages taken from page_iterator
    all_events,        \* the events accumulated
    lookResult,        \* the dict returned
    \* ---- _assume_cross_account_role, as each tool's entry point calls it
    brokerPc,          \* position of the invocation around the brokering
    brokerInput,       \* the entry point invoked and its arguments
    assume_args,       \* the arguments _assume_cross_account_role is called with
    stsRequests,       \* the sts.assume_role requests issued, with their outcome
    assume_result,     \* what _assume_cross_account_role returned, or that it raised
    \* ---- create_least_privilege_role_from_events: the analysis, step by step
    synthPc,           \* position in the analysis of the events
    synthInput,        \* cloudtrail_events
    synthIdx,          \* position of 'for event in cloudtrail_events'
    synthActions,      \* the set 'actions'
    synthResources,    \* the set 'resources'
    synthPolicy,       \* the statement of permission_policy
    \* ---- SCATool.create_policy and SCATool.rescan
    actPc,             \* position in create_policy / rescan
    actInput,          \* the action invoked
    submit_response,   \* what the submission of the job answered
    actResult,         \* what the action returned, or that it raised
    \* ---- the environment of an invocation
    deadline_passed    \* the invocation-level deadline has expired

waitVars == <<waitPc, elapsed, polls, sleeps, status_response, observed, waitResult>>

provVars == <<provInput, provPc, callNo, iam_client, max_session_duration,
              attachIdx, attached_policies, remoteCalls, roles, rolePolicies,
              provLog>>

fetVars == <<fetInput, fetPc, session, accountUsers, fetCalls, lookupCalls, usernames,
             cleanIdx, cleanup_results, iam_users, submitted, futures,
             users_data, errors, total_events, fetResult>>

lookVars == <<lookPc, lookInput, pagesRequested, all_events, lookResult>>

brokerVars == <<brokerPc, brokerInput, assume_args, stsRequests, assume_result>>

synthVars == <<synthPc, synthInput, synthIdx, synthActions, synthResources,
               synthPolicy>>

actVars == <<actPc, actInput, submit_response, actResult>>

envVars == <<deadline_passed>>

vars == <<waitVars, provVars, fetVars, lookVars, brokerVars, synthVars, actVars,
          envVars>>

notWaitVars == <<provVars, fetVars, lookVars, brokerVars, synthVars, actVars, envVars>>
notProvVars == <<waitVars, fetVars, lookVars, brokerVars, synthVars, actVars, envVars>>
notFetVars == <<waitVars, provVars, lookVars, brokerVars, synthVars, actVars, envVars>>
notLookVars == <<waitVars, provVars, fetVars, brokerVars, synthVars, actVars, envVars>>
notBrokerVars == <<waitVars, provVars, fetVars, lookVars, synthVars, actVars, envVars>>
notSynthVars == <<waitVars, provVars, fetVars, lookVars, brokerVars, actVars, envVars>>
notActVars == <<waitVars, provVars, fetVars, lookVars, brokerVars, synthVars, envVars>>

None == "None"

(***************************************************************************)
(* SCATool.wait_for_job_completion                                         *)
(***************************************************************************)

\* default arguments of wait_for_job_completion
max_wait_time == 300
poll_interval == 10

\* how many of the first observed statuses the model remembers
MaxObserved == 2

\* the 'status' values the job status API may answer with; NoStatus is a
\* response without a 'status' key
NoStatus == "<missing>"
RawStatuses == {"Success", "Failure", "InProgress", "Completed", NoStatus}

\* status_response.get('status', '').lower()
LowerStatus(resp) ==
    CASE resp.status = "Success"    -> "success"
      [] resp.status = "Failure"    -> "failure"
      [] resp.status = "InProgress" -> "inprogress"
      [] resp.status = "Completed"  -> "completed"
      [] OTHER                      -> ""

\* a response of the status API: the status and the payload (the poll that
\* produced it identifies the payload)
StatusResponse(raw, n) == [status |-> raw, seq |-> n]

\* no response held yet (status_response unbound), and no outcome yet
NoResponse == [status |-> None, seq |-> 0]
NoWaitResult == [kind |-> None, from |-> None, payload |-> NoResponse]

\* what get_job_status_debug_mode can do on call number n: return a response
\* or raise (requests error, HTTP error status, token failure)
StatusCallOutcomes(n) ==
    {[raised |-> FALSE, resp |-> StatusResponse(raw, n)] : raw \in RawStatuses}
        \cup {[raised |-> TRUE, resp |-> NoResponse]}

Remember(obs, s) == IF Len(obs) < MaxObserved THEN Append(obs, s) ELSE obs

\* the mutant of LoopBranch: the 'success' branch sleeps instead of returning
LoopBranchSuccessSleeps(job_status) ==
    IF job_status = "failure" THEN "raise_caught" ELSE "sleep"

\* the mutant of LoopBranch: the 'inprogress' branch ends the wait
LoopBranchInProgressReturns(job_status) ==
    IF job_status \in {"success", "inprogress"} THEN "return"
    ELSE IF job_status = "failure" THEN "raise_caught" ELSE "sleep"

\* the if/elif chain in the polling loop.  The raise of the 'failure' branch
\* is inside the try block whose 'except Exception' handler logs a warning and
\* sleeps, so that RuntimeError never leaves the loop.
LoopBranch(job_status) ==
    CASE job_status = "success"    -> "return"
      [] job_status = "failure"    -> "raise_caught"
      [] job_status = "inprogress" -> "sleep"
      [] OTHER                     -> "sleep"

\* the mutant of AfterLoopException: the exception leaves the loop
AfterLoopExceptionPropagates == "raise"

\* an exception of the status call inside the loop: 'except Exception' logs
\* a warning and sleeps
AfterLoopException == "sleep"

\* start_time = time.time()
WaitStart ==
    /\ waitPc = "idle"
    /\ waitPc' = "while"
    /\ elapsed' = 0
    /\ UNCHANGED <<polls, sleeps, status_response, observed, waitResult>>
    /\ UNCHANGED notWaitVars

\* one iteration of the while loop up to its sleep or return
LoopPoll ==
    /\ waitPc = "while"
    /\ elapsed < max_wait_time
    /\ \E out \in StatusCallOutcomes(polls + 1) :
        /\ polls' = polls + 1
        /\ IF out.raised
           THEN /\ observed' = Remember(observed, "<exception>")
                /\ UNCHANGED status_response
                /\ IF AfterLoopException = "sleep"
                   THEN /\ waitPc' = "sleep"
                        /\ UNCHANGED waitResult
                   ELSE /\ waitPc' = "raised"
                        /\ waitResult' = [kind |-> "raise", from |-> "loop",
                                          payload |-> NoResponse]
           ELSE /\ status_response' = out.resp
                /\ observed' = Remember(observed, LowerStatus(out.resp))
                /\ LET branch == LoopBranch(LowerStatus(out.resp)) IN
                   CASE branch = "return" ->
                          /\ waitPc' = "returned"
                          /\ waitResult' = [kind |-> "return", from |-> "loop",
                                            payload |-> out.resp]
                     [] OTHER ->
                          \* sleep of the branch, or of the except handler
                          \* that caught the branch's RuntimeError
                          /\ waitPc' = "sleep"
                          /\ UNCHANGED waitResult
    /\ UNCHANGED <<elapsed, sleeps>>
    /\ UNCHANGED notWaitVars

\* time.sleep(poll_interval), then back to the loop test
Sleep ==
    /\ waitPc = "sleep"
    /\ elapsed' = elapsed + poll_interval
    /\ sleeps' = sleeps + 1
    /\ waitPc' = "while"
    /\ UNCHANGED <<polls, status_response, observed, waitResult>>
    /\ UNCHANGED notWaitVars

\* the mutant of AfterFinalCheck: the final status is returned whatever it is
AfterFinalCheckAlwaysReturns(job_status) == "return"

\* what follows the final status check: 'failure' raises, any other status
\* (success and non-terminal ones alike) is returned
AfterFinalCheck(job_status) ==
    IF job_status = "failure" THEN "raise" ELSE "return"

\* the loop test failed: one final status check outside any try block
FinalCheck ==
    /\ waitPc = "while"
    /\ elapsed >= max_wait_time
    /\ \E out \in StatusCallOutcomes(polls + 1) :
        /\ polls' = polls + 1
        /\ IF out.raised
           THEN /\ waitPc' = "raised"
                /\ waitResult' = [kind |-> "raise", from |-> "final",
                                  payload |-> NoResponse]
                /\ UNCHANGED status_response
           ELSE /\ status_response' = out.resp
                /\ IF AfterFinalCheck(LowerStatus(out.resp)) = "raise"
                   THEN /\ waitPc' = "raised"
                        /\ waitResult' = [kind |-> "raise", from |-> "final",
                                          payload |-> out.resp]
                   ELSE /\ waitPc' = "returned"
                        /\ waitResult' = [kind |-> "return", from |-> "final",
                                          payload |-> out.resp]
    /\ UNCHANGED <<elapsed, sleeps, observed>>
    /\ UNCHANGED notWaitVars


(***************************************************************************)
(* AWSRoleCreator: create_least_privilege_role_from_events and _run        *)
(***************************************************************************)

\* AWS limits of MaxSessionDuration, as written in _run
MinSessionDuration == 3600
MaxSessionDuration == 43200
\* the default of _run's max_session_duration parameter
DefaultSessionDuration == 3600

\* bounds of the inputs explored
MaxCalls == 2       \* invocations made one after the other with the same input
MaxPolicies == 2    \* permission policies passed to _run
MaxEvents == 2      \* CloudTrail events passed to ..._from_events

RoleNames == {"", "LeastPrivRole"}
AccountIds == {None, "111122223333"}
SessionDurations == {-1, 0, MinSessionDuration - 1, MinSessionDuration, 7200,
                     MaxSessionDuration, MaxSessionDuration + 1}

\* an event source is a string, held as its pieces so that
\* replace('.amazonaws.com', '') can be applied; <<>> is a missing/empty source
AwsSuffix == ".amazonaws.com"
EventUniverse ==
    { [event_name |-> "GetObject", event_source |-> <<"s3", AwsSuffix>>,
       resources |-> <<[ResourceName |-> "bucket1"]>>],
      [event_name |-> "PutObject", event_source |-> <<"s3", AwsSuffix>>,
       resources |-> <<>>],
      [event_name |-> "ListUsers", event_source |-> <<>>,
       resources |-> <<[ResourceName |-> ""]>>],
      [event_name |-> "", event_source |-> <<"iam", AwsSuffix>>,
       resources |-> <<>>] }

SeqsUpTo(S, n) == UNION {[1..k -> S] : k \in 0..n}

\* policy documents: {} is the empty document
EmptyDoc == [Action |-> {}, Resource |-> {}, Principal |-> {}, Sid |-> 0]
SomePolicy(k) == [Action |-> {<<"s3", ":", "GetObject">>}, Resource |-> {"bucket1"},
                  Principal |-> {}, Sid |-> k]
SomeTrust == [Action |-> {<<"sts", ":", "AssumeRole">>}, Resource |-> {},
              Principal |-> {"ec2.amazonaws.com"}, Sid |-> 0]

\* str.replace(old, ''): every occurrence of the piece is removed
RECURSIVE Replace(_, _)
Replace(str, old) ==
    IF str = <<>> THEN <<>>
    ELSE IF Head(str) = old THEN Replace(Tail(str), old)
    ELSE <<Head(str)>> \o Replace(Tail(str), old)

\* the loop over cloudtrail_events collecting 'actions'
EventActions(cloudtrail_events) ==
    { Replace(cloudtrail_events[i].event_source, AwsSuffix)
          \o <<":", cloudtrail_events[i].event_name>> :
      i \in { j \in 1..Len(cloudtrail_events) :
                /\ cloudtrail_events[j].event_name # ""
                /\ cloudtrail_events[j].event_source # <<>> } }

\* the loop over cloudtrail_events collecting 'resources'
EventResources(cloudtrail_events) ==
    UNION { { cloudtrail_events[i].resources[k].ResourceName :
                k \in { l \in 1..Len(cloudtrail_events[i].resources) :
                          cloudtrail_events[i].resources[l].ResourceName # "" } } :
            i \in 1..Len(cloudtrail_events) }

\* the trust policy create_least_privilege_role_from_events builds
DefaultTrust == [Action |-> {<<"sts", ":", "AssumeRole">>}, Resource |-> {},
                 Principal |-> {"ec2.amazonaws.com", "lambda.amazonaws.com"},
                 Sid |-> 0]

\* the mutant of PermissionPolicy: no fallback action
PermissionPolicyNoFallback(cloudtrail_events) ==
    [Action |-> EventActions(cloudtrail_events),
     Resource |-> IF EventResources(cloudtrail_events) = {} THEN {"*"}
                  ELSE EventResources(cloudtrail_events),
     Principal |-> {}, Sid |-> 0]

\* the permission policy create_least_privilege_role_from_events builds
PermissionPolicy(cloudtrail_events) ==
    LET actions == EventActions(cloudtrail_events)
        resources == EventResources(cloudtrail_events)
    IN [Action |-> IF actions # {} THEN actions ELSE {<<"s3", ":", "GetObject">>},
        Resource |-> IF resources = {} THEN {"*"} ELSE resources,
        Principal |-> {}, Sid |-> 0]

\* the arguments _run is called with: as given, or as
\* create_least_privilege_role_from_events derives them from the events
RunArgs(input) ==
    IF input.entry = "_run"
    THEN [role_name |-> input.role_name, trust_policy |-> input.trust_policy,
          permission_policies |-> input.permission_policies,
          max_session_duration |-> input.max_session_duration,
          customer_account_id |-> input.customer_account_id]
    ELSE [role_name |-> input.role_name, trust_policy |-> DefaultTrust,
          permission_policies |-> <<PermissionPolicy(input.cloudtrail_events)>>,
          max_session_duration |-> DefaultSessionDuration,
          customer_account_id |-> input.customer_account_id]

ProvInputs ==
    { [entry |-> "_run", role_name |-> n, trust_policy |-> t,
       permission_policies |-> [i \in 1..k |-> SomePolicy(i)],
       max_session_duration |-> d, customer_account_id |-> a,
       cloudtrail_events |-> <<>>] :
      n \in RoleNames, t \in {EmptyDoc, SomeTrust}, k \in 0..MaxPolicies,
      d \in SessionDurations, a \in AccountIds }
    \cup
    { [entry |-> "from_events", role_name |-> n, trust_policy |-> EmptyDoc,
       permission_policies |-> <<>>,
       max_session_duration |-> DefaultSessionDuration, customer_account_id |-> a,
       cloudtrail_events |-> ev] :
      n \in RoleNames, a \in AccountIds, ev \in SeqsUpTo(EventUniverse, MaxEvents) }

\* the mutant of ClampSessionDuration: the upper limit is not applied
ClampSessionDurationNoUpper(d) ==
    IF d < MinSessionDuration THEN MinSessionDuration ELSE d

\* the MaxSessionDuration validation of _run
ClampSessionDuration(d) ==
    IF d < MinSessionDuration THEN MinSessionDuration
    ELSE IF d > MaxSessionDuration THEN MaxSessionDuration
    ELSE d

\* the mutant of ValidationError: the permission policies are not looked at
ValidationErrorIgnoresPolicies(a) ==
    IF a.role_name = "" THEN "Role name is required"
    ELSE IF a.trust_policy = EmptyDoc THEN "Trust policy is required"
    ELSE None

\* the input validation of _run: the error it returns, or None
ValidationError(a) ==
    IF a.role_name = "" THEN "Role name is required"
    ELSE IF a.trust_policy = EmptyDoc THEN "Trust policy is required"
    ELSE IF Len(a.permission_policies) = 0
         THEN "At least one permission policy is required"
    ELSE None

\* role_arn = f"arn:aws:iam::{customer_account_id}:role/{role_name}"
RoleArn(account, name) == <<"arn:aws:iam::", account, ":role/", name>>

\* the role _assume_cross_account_role assumes (the parameter's default)
cross_account_role_name == "CyberArkRoleSCA-6c116dd0-9300-11f0-bd68-0e66c6d684e1"

\* policy_name = f"{role_name}Policy{i+1}", i counted from 0
PolicyName(name, i) == <<name, "Policy", i>>

NoRole == [name |-> "", arn |-> <<>>, msd |-> 0, trust |-> EmptyDoc,
           createdBy |-> -1]
Role(name, account, msd, trust, by) ==
    [name |-> name, arn |-> RoleArn(account, name), msd |-> msd,
     trust |-> trust, createdBy |-> by]

\* the account the invocation works in
TargetAccount(a) ==
    IF a.customer_account_id # None THEN a.customer_account_id ELSE "local"

RoleExists(name) == \E r \in roles : r.name = name
RoleNamed(name) == CHOOSE r \in roles : r.name = name

\* one remote call of an invocation
RemoteCall(op, via, outcome, target, msd, policy) ==
    [op |-> op, via |-> via, outcome |-> outcome, target |-> target,
     msd |-> msd, policy_name |-> policy]

MutatingOps == {"create_role", "put_role_policy"}
Mutating(calls) == {k \in 1..Len(calls) : calls[k].op \in MutatingOps}

\* the JSON _run returns ('error' results carry no status)
ProvResult(status, error, details, attached, cross) ==
    [status |-> status, error |-> error, role_arn |-> details.arn,
     role_details |-> details, attached_policies |-> attached,
     cross_account |-> cross]

\* the attachment-error entries a result carries: the result summary has no
\* key for them (a failed attachment is only logged), and an error result
\* carries the one message of the exception that ended the call
AttachmentErrors(result) == <<>>

\* whether a result tells the caller that the wildcard resource was used:
\* neither the result summary nor an error result has a key for it
WildcardFlagged(result) == FALSE

\* return json.dumps(...): the invocation ends and its outcome is recorded
RunReturns(result, calls) ==
    /\ provLog' = Append(provLog, [result |-> result, calls |-> calls])
    /\ provPc' = "idle"

\* the mutant of AfterGetRole: an existing role is created again
AfterGetRoleRecreates(outcome) ==
    IF outcome \in {"ok", "NoSuchEntity"} THEN "create" ELSE "return_error"

\* the mutant of AfterGetRole: any get_role error is taken for NoSuchEntity
AfterGetRoleAnyErrorCreates(outcome) ==
    IF outcome = "ok" THEN "return_exists" ELSE "create"

\* what _run does with the answer of get_role
AfterGetRole(outcome) ==
    CASE outcome = "ok"           -> "return_exists"
      [] outcome = "NoSuchEntity" -> "create"
      [] OTHER                    -> "return_error"

\* the answers the IAM service can give to get_role(RoleName=name)
GetRoleOutcomes(name) ==
    {IF RoleExists(name) THEN "ok" ELSE "NoSuchEntity"}
        \cup {"AccessDenied", "Exception"}

\* the outcomes of the other remote calls: success, a botocore ClientError, or
\* any other exception
CallOutcomes == {"ok", "ClientError", "Exception"}

\* _run (or create_least_privilege_role_from_events) is invoked: validation
\* and clamping, up to the first remote call
RunStart ==
    /\ provPc = "idle"
    /\ callNo < MaxCalls
    /\ callNo' = callNo + 1
    /\ remoteCalls' = <<>>
    /\ attached_policies' = <<>>
    /\ attachIdx' = 0
    /\ iam_client' = "default"
    /\ LET a == RunArgs(provInput) IN
       IF ValidationError(a) # None
       THEN /\ RunReturns(ProvResult(None, ValidationError(a), NoRole, <<>>, FALSE),
                          <<>>)
            /\ UNCHANGED max_session_duration
       ELSE /\ max_session_duration' = ClampSessionDuration(a.max_session_duration)
            /\ provPc' = IF a.customer_account_id # None THEN "assume"
                         ELSE "get_role"
            /\ UNCHANGED provLog
    /\ UNCHANGED <<provInput, roles, rolePolicies>>
    /\ UNCHANGED notProvVars

\* _assume_cross_account_role: sts.assume_role and the session built from it
AssumeRole ==
    /\ provPc = "assume"
    /\ LET a == RunArgs(provInput) IN
       \E outcome \in CallOutcomes :
         LET calls == Append(remoteCalls,
                 RemoteCall("assume_role", "sts", outcome,
                     RoleArn(a.customer_account_id, cross_account_role_name),
                     0, <<>>))
         IN /\ remoteCalls' = calls
            /\ IF outcome = "ok"
               THEN /\ iam_client' = "assumed"
                    /\ provPc' = "get_role"
                    /\ UNCHANGED provLog
               ELSE /\ RunReturns(ProvResult(None,
                           IF outcome = "ClientError"
                           THEN "Failed to assume cross-account role"
                           ELSE "Unexpected error", NoRole, <<>>, FALSE), calls)
                    /\ UNCHANGED iam_client
    /\ UNCHANGED <<provInput, callNo, max_session_duration, attachIdx,
                   attached_policies, roles, rolePolicies>>
    /\ UNCHANGED notProvVars

\* the existence check: iam_client.get_role(RoleName=role_name)
GetRole ==
    /\ provPc = "get_role"
    /\ LET a == RunArgs(provInput) IN
       \E outcome \in GetRoleOutcomes(a.role_name) :
         LET calls == Append(remoteCalls,
                 RemoteCall("get_role", iam_client, outcome, a.role_name, 0, <<>>))
             next == IF outcome = "Exception" THEN "return_error"
                     ELSE AfterGetRole(outcome)
         IN /\ remoteCalls' = calls
            /\ CASE next = "return_exists" ->
                      RunReturns(ProvResult("already_exists", None,
                                     RoleNamed(a.role_name), <<>>,
                                     iam_client = "assumed"), calls)
                 [] next = "create" ->
                      /\ provPc' = "create_role"
                      /\ UNCHANGED provLog
                 [] OTHER ->
                      RunReturns(ProvResult(None,
                                     IF outcome = "Exception" THEN "Unexpected error"
                                     ELSE "Error checking existing role",
                                     NoRole, <<>>, iam_client = "assumed"), calls)
    /\ UNCHANGED <<provInput, callNo, iam_client, max_session_duration, attachIdx,
                   attached_policies, roles, rolePolicies>>
    /\ UNCHANGED notProvVars

\* the answers the IAM service can give to create_role: it refuses a name
\* that exists (EntityAlreadyExists is a ClientError)
CreateRoleOutcomes(name) ==
    (IF RoleExists(name) THEN {} ELSE {"ok"}) \cup {"ClientError", "Exception"}

\* iam_client.create_role(**create_role_params)
CreateRole ==
    /\ provPc = "create_role"
    /\ LET a == RunArgs(provInput) IN
       \E outcome \in CreateRoleOutcomes(a.role_name) :
         LET calls == Append(remoteCalls,
                 RemoteCall("create_role", iam_client, outcome, a.role_name,
                            max_session_duration, <<>>))
         IN /\ remoteCalls' = calls
            /\ IF outcome = "ok"
               THEN /\ roles' = roles \cup
                          {Role(a.role_name, TargetAccount(a), max_session_duration,
                                a.trust_policy, callNo)}
                    /\ provPc' = "attach"
                    /\ attachIdx' = 1
                    /\ UNCHANGED provLog
               ELSE \* the outer 'except ClientError' / 'except Exception'
                    /\ RunReturns(ProvResult(None,
                           IF outcome = "ClientError" THEN "AWS IAM Error"
                           ELSE "Unexpected error",
                           NoRole, <<>>, iam_client = "assumed"), calls)
                    /\ UNCHANGED <<roles, attachIdx>>
    /\ UNCHANGED <<provInput, callNo, iam_client, max_session_duration,
                   attached_policies, rolePolicies>>
    /\ UNCHANGED notProvVars

\* one turn of the loop over permission_policies: put_role_policy; after the
\* last policy, the result summary is returned
PutRolePolicy ==
    /\ provPc = "attach"
    /\ LET a == RunArgs(provInput)
           policy_name == PolicyName(a.role_name, attachIdx)
       IN
       \E outcome \in CallOutcomes :
         LET calls == Append(remoteCalls,
                 RemoteCall("put_role_policy", iam_client, outcome, a.role_name,
                            0, policy_name))
             attached == IF outcome = "ok"
                         THEN Append(attached_policies, policy_name)
                         ELSE attached_policies
         IN /\ remoteCalls' = calls
            /\ attached_policies' = attached
            /\ rolePolicies' = IF outcome = "ok"
                               THEN rolePolicies \cup
                                      {[role |-> a.role_name, name |-> policy_name,
                                        doc |-> a.permission_policies[attachIdx]]}
                               ELSE rolePolicies
            /\ CASE outcome = "Exception" ->
                      \* not a ClientError: leaves the loop to 'except Exception'
                      /\ RunReturns(ProvResult(None, "Unexpected error", NoRole,
                                        <<>>, iam_client = "assumed"), calls)
                      /\ UNCHANGED attachIdx
                 [] outcome # "Exception" /\ attachIdx < Len(a.permission_policies) ->
                      /\ attachIdx' = attachIdx + 1
                      /\ UNCHANGED <<provLog, provPc>>
                 [] OTHER ->
                      /\ RunReturns(ProvResult("success", None,
                                        RoleNamed(a.role_name), attached,
                                        iam_client = "assumed"), calls)
                      /\ UNCHANGED attachIdx
    /\ UNCHANGED <<provInput, callNo, iam_client, max_session_duration, roles>>
    /\ UNCHANGED notProvVars

ProvIdle ==
    /\ provPc = "idle"
    /\ callNo = 0
    /\ iam_client = "default"
    /\ max_session_duration = DefaultSessionDuration
    /\ attachIdx = 0
    /\ attached_policies = <<>>
    /\ remoteCalls = <<>>
    /\ rolePolicies = {}
    /\ provLog = <<>>

\* a role of that name may exist in the target account before the first call
PreexistingRoles(input) ==
    {{}, {Role(input.role_name, TargetAccount(input), DefaultSessionDuration,
               SomeTrust, 0)}}

ProvInit ==
    /\ ProvIdle
    /\ provInput \in ProvInputs
    /\ roles \in PreexistingRoles(provInput)

ProvNext == RunStart \/ AssumeRole \/ GetRole \/ CreateRole \/ PutRolePolicy

(***************************************************************************)
(* CloudTrailEventsFetcher: shared steps                                   *)
(***************************************************************************)

\* bounds of the inputs explored
MaxUsers == 3       \* IAM users in the account

\* ThreadPoolExecutor(max_workers=16): the pool size, scaled down so that the
\* account can hold more users than the pool has workers
max_workers == 2

Usernames == {"DeploymentUser", "Hackathon", "alice", "bob"}

\* the default of protected_users in cleanup_iam_users / _delete_iam_users
DefaultProtectedUsers == {"DeploymentUser", "Hackathon", "pro_user", "pro_max_user"}

\* protected_users: None, or a list of names
NotGiven == [given |-> FALSE, names |-> {}]
Given(names) == [given |-> TRUE, names |-> names]

\* sequences without repetition: list_users names each user once
UserLists ==
    {l \in SeqsUpTo(Usernames, MaxUsers) :
        \A i, j \in 1..Len(l) : i # j => l[i] # l[j]}

FetCall(op, via, outcome, user) ==
    [op |-> op, via |-> via, outcome |-> outcome, user |-> user]

\* the summary of a fetch_events report; the activity statistics are set
\* only when events were collected
FetchSummary(processed, events, active, inactive, skip, stats) ==
    [total_users_processed |-> processed, total_events_found |-> events,
     users_with_activity |-> active, users_without_activity |-> inactive,
     users_to_skip |-> skip, has_stats |-> stats]

\* the JSON fetch_events returns
FetchReport(error, data, errs, summary) ==
    [returned |-> TRUE, action |-> "fetch_events", success |-> error = None,
     error |-> error, users_data |-> data, errors |-> errs, summary |-> summary,
     cleanup_results |-> <<>>]

\* the JSON cleanup_iam_users returns
CleanupReport(success, error, results) ==
    [returned |-> TRUE, action |-> "cleanup_users", success |-> success,
     error |-> error, users_data |-> <<>>, errors |-> <<>>,
     summary |-> FetchSummary(Len(results), 0, 0, 0, <<>>, FALSE),
     cleanup_results |-> results]

NoFetResult ==
    [returned |-> FALSE, action |-> None, success |-> FALSE, error |-> None,
     users_data |-> <<>>, errors |-> <<>>,
     summary |-> FetchSummary(0, 0, 0, 0, <<>>, FALSE), cleanup_results |-> <<>>]

\* the report of an action that stops on a failed remote call
FailureReport(action, outcome, what, errs) ==
    IF action = "cleanup_users"
    THEN CleanupReport(FALSE,
             IF outcome = "ClientError" THEN what
             ELSE "Unexpected error during IAM user cleanup", <<>>)
    ELSE IF outcome = "ClientError"
    THEN FetchReport(None, <<>>, Append(errs, what),
                     FetchSummary(0, 0, 0, 0, <<>>, FALSE))
    ELSE FetchReport("Unexpected error in CloudTrail Events Fetcher", <<>>, <<>>,
                     FetchSummary(0, 0, 0, 0, <<>>, FALSE))

\* the mutant of Via: every call goes through boto3's default client
ViaAlwaysDefault(sess) == "default"

\* the client a call goes through: the assumed session's, or boto3's default
Via(sess) == IF sess = None THEN "default" ELSE "assumed"

\* _run / cleanup_iam_users is entered, up to the first remote call
FetStart ==
    /\ fetPc = "idle"
    /\ fetPc' = IF fetInput.customer_account_id # None THEN "assume"
                ELSE "get_users"
    /\ UNCHANGED <<fetInput, session, accountUsers, fetCalls, lookupCalls, usernames, cleanIdx,
                   cleanup_results, iam_users, submitted, futures, users_data,
                   errors, total_events, fetResult>>
    /\ UNCHANGED notFetVars

\* _assume_cross_account_role, called when customer_account_id is given;
\* on failure the action returns its error report
FetAssume ==
    /\ fetPc = "assume"
    /\ \E outcome \in CallOutcomes :
        /\ fetCalls' = Append(fetCalls, FetCall("assume_role", "sts", outcome, None))
        /\ IF outcome = "ok"
           THEN /\ session' = "assumed"
                /\ fetPc' = "get_users"
                /\ UNCHANGED fetResult
           ELSE /\ fetPc' = "returned"
                /\ fetResult' = FailureReport(fetInput.action, outcome,
                                    "Failed to assume cross-account role", errors)
                /\ UNCHANGED session
    /\ UNCHANGED <<fetInput, accountUsers, lookupCalls, usernames, cleanIdx, cleanup_results,
                   iam_users, submitted, futures, users_data, errors,
                   total_events>>
    /\ UNCHANGED notFetVars

(***************************************************************************)
(* CloudTrailEventsFetcher.cleanup_iam_users and _delete_iam_users         *)
(***************************************************************************)

\* the mutant of ProtectedUsers: the default list is not applied
ProtectedUsersNoDefault(protected_users) == protected_users.names

\* 'if protected_users is None: protected_users = [...]'
ProtectedUsers(protected_users) ==
    IF ~protected_users.given THEN DefaultProtectedUsers
    ELSE protected_users.names

\* the entries _delete_iam_users appends
CleanupEntry(username, status) == [username |-> username, status |-> status]

RECURSIVE Without(_, _)
Without(list, x) ==
    IF list = <<>> THEN <<>>
    ELSE IF Head(list) = x THEN Without(Tail(list), x)
    ELSE <<Head(list)>> \o Without(Tail(list), x)

\* _get_all_iam_users and the extraction of the usernames; with no user to
\* process the summary is returned at once
CleanupListUsers ==
    /\ fetPc = "get_users"
    /\ fetInput.action = "cleanup_users"
    /\ \E outcome \in CallOutcomes :
        /\ fetCalls' = Append(fetCalls,
                           FetCall("list_users", Via(session), outcome, None))
        /\ IF outcome = "ok"
           THEN /\ usernames' = accountUsers
                /\ cleanIdx' = 1
                /\ IF accountUsers = <<>>
                   THEN /\ fetPc' = "returned"
                        /\ fetResult' = CleanupReport(TRUE, None, <<>>)
                   ELSE /\ fetPc' = "delete"
                        /\ UNCHANGED fetResult
           ELSE /\ fetPc' = "returned"
                /\ fetResult' = FailureReport(fetInput.action, outcome,
                                    "Error getting IAM users", errors)
                /\ UNCHANGED <<usernames, cleanIdx>>
    /\ UNCHANGED <<fetInput, session, accountUsers, lookupCalls, cleanup_results, iam_users,
                   submitted, futures, users_data, errors, total_events>>
    /\ UNCHANGED notFetVars

\* one turn of the loop of _delete_iam_users; after the last username the
\* summary is returned
DeleteUser ==
    /\ fetPc = "delete"
    /\ LET username == usernames[cleanIdx]
           last == cleanIdx = Len(usernames)
           done(results) ==
               IF last
               THEN /\ fetPc' = "returned"
                    /\ fetResult' = CleanupReport(TRUE, None, results)
               ELSE UNCHANGED <<fetPc, fetResult>>
       IN
       IF username \in ProtectedUsers(fetInput.protected_users)
       THEN /\ cleanup_results' =
                   Append(cleanup_results, CleanupEntry(username, "skipped"))
            /\ cleanIdx' = cleanIdx + 1
            /\ done(cleanup_results')
            /\ UNCHANGED <<fetCalls, accountUsers>>
       ELSE \E outcome \in CallOutcomes :
            /\ fetCalls' = Append(fetCalls,
                               FetCall("delete_user", Via(session), outcome, username))
            /\ CASE outcome = "ok" ->
                      /\ accountUsers' = Without(accountUsers, username)
                      /\ cleanup_results' =
                             Append(cleanup_results, CleanupEntry(username, "deleted"))
                      /\ cleanIdx' = cleanIdx + 1
                      /\ done(cleanup_results')
                 [] outcome = "ClientError" ->
                      /\ cleanup_results' =
                             Append(cleanup_results, CleanupEntry(username, "error"))
                      /\ cleanIdx' = cleanIdx + 1
                      /\ done(cleanup_results')
                      /\ UNCHANGED accountUsers
                 [] OTHER ->
                      \* not a ClientError: caught by cleanup_iam_users
                      /\ fetPc' = "returned"
                      /\ fetResult' = FailureReport(fetInput.action, outcome, None,
                                                    errors)
                      /\ UNCHANGED <<accountUsers, cleanup_results, cleanIdx>>
    /\ UNCHANGED <<fetInput, session, lookupCalls, usernames, iam_users, submitted, futures,
                   users_data, errors, total_events>>
    /\ UNCHANGED notFetVars

(***************************************************************************)
(* CloudTrailEventsFetcher: fetch_events                                   *)
(***************************************************************************)

\* max_events=50 in fetch_user_events
max_events == 50

\* the values the 'CloudTrailEvent' key of an event may hold: the text of a
\* JSON object, a text that is not JSON, a value that is no text at all, the
\* text of a JSON value that is not an object; None is a missing (or empty) key
ObjectText == "{\"eventVersion\": \"1.08\", \"requestID\": \"r-1\"}"
BadText == "{not json"
NotText == "<dict>"
ArrayText == "[1, 2]"
Payloads == {None, ObjectText, BadText, NotText, ArrayText}

\* json.loads(payload): the exception it raises, or the value it returns
JsonLoads(payload) ==
    CASE payload = ObjectText ->
           [exc |-> None, isObject |-> TRUE,
            obj |-> [eventVersion |-> "1.08", requestID |-> "r-1",
                     requestParameters |-> None]]
      [] payload = ArrayText ->
           [exc |-> None, isObject |-> FALSE,
            obj |-> [eventVersion |-> None, requestID |-> None,
                     requestParameters |-> None]]
      [] payload = NotText ->
           [exc |-> "TypeError", isObject |-> FALSE,
            obj |-> [eventVersion |-> None, requestID |-> None,
                     requestParameters |-> None]]
      [] OTHER ->
           [exc |-> "JSONDecodeError", isObject |-> FALSE,
            obj |-> [eventVersion |-> None, requestID |-> None,
                     requestParameters |-> None]]

\* the mutant of Tolerated: a TypeError is not caught
ToleratedOnlyDecodeError == {"JSONDecodeError"}

\* 'except (json.JSONDecodeError, TypeError): pass'
Tolerated == {"JSONDecodeError", "TypeError"}

\* an event as lookup_events returns it
RawEvent(username, k) ==
    [EventId |-> <<username, k>>, EventName |-> "GetObject",
     EventSource |-> <<"s3", AwsSuffix>>, Username |-> username,
     Resources |-> <<>>, CloudTrailEvent |-> ObjectText]

\* the fields taken from the parsed CloudTrailEvent (three of the eleven,
\* which are all set by the one update() call); None when the key is
\* missing or the parse failed
NoDetail == [event_version |-> None, request_parameters |-> None,
             request_id |-> None]
DetailFields(event) ==
    LET parsed == JsonLoads(event.CloudTrailEvent) IN
    IF event.CloudTrailEvent # None /\ parsed.exc = None /\ parsed.isObject
    THEN [event_version |-> parsed.obj.eventVersion,
          request_parameters |-> parsed.obj.requestParameters,
          request_id |-> parsed.obj.requestID]
    ELSE NoDetail

\* building the record of this event raises: json.loads raised an exception
\* the handler does not name, or ct_event.get is called on a value that is
\* not a dict (AttributeError)
EventDataRaises(event) ==
    LET parsed == JsonLoads(event.CloudTrailEvent) IN
    /\ event.CloudTrailEvent # None
    /\ IF parsed.exc # None THEN parsed.exc \notin Tolerated
       ELSE ~parsed.isObject

\* the flat record built for each event
EventData(event) ==
    [event_id |-> event.EventId, event_name |-> event.EventName,
     event_source |-> event.EventSource, username |-> event.Username,
     resources |-> event.Resources,
     event_version |-> DetailFields(event).event_version,
     request_parameters |-> DetailFields(event).request_parameters,
     request_id |-> DetailFields(event).request_id]

\* the pages lookup_events may hold for a user: no event, or two pages
TrailChoices(username) ==
    { <<>>, << <<RawEvent(username, 1)>>, <<RawEvent(username, 2)>> >> }

\* the mutant of TakePage: the cap is tested with > instead of >=
RECURSIVE TakePageOneMore(_, _, _)
TakePageOneMore(all, events, max) ==
    IF events = <<>> \/ Len(all) > max THEN all
    ELSE TakePageOneMore(Append(all, EventData(Head(events))), Tail(events), max)

\* the inner loop of _get_cloudtrail_events_for_user over one page
RECURSIVE TakePage(_, _, _)
TakePage(all, events, max) ==
    IF events = <<>> \/ Len(all) >= max THEN all
    ELSE TakePage(Append(all, EventData(Head(events))), Tail(events), max)

\* the inner loop over one page is left by an exception of one of the events
\* it reaches
RECURSIVE PageRaises(_, _, _)
PageRaises(all, events, max) ==
    IF events = <<>> \/ Len(all) >= max THEN FALSE
    ELSE IF EventDataRaises(Head(events)) THEN TRUE
    ELSE PageRaises(Append(all, EventData(Head(events))), Tail(events), max)

\* the outer loop over the pages
RECURSIVE TakePages(_, _, _)
TakePages(all, pages, max) ==
    IF pages = <<>> THEN all
    ELSE LET got == TakePage(all, Head(pages), max)
         IN IF Len(got) >= max THEN got ELSE TakePages(got, Tail(pages), max)

\* what a task (fetch_user_events) can end with: the dict returned by
\* _get_cloudtrail_events_for_user, with the events or with the ClientError's
\* message, or an exception that is not a ClientError
TaskResult(kind, events) == [kind |-> kind, events |-> events]
NoTaskResult == TaskResult(None, <<>>)
TaskOutcomes(username) ==
    {TaskResult("events", TakePages(<<>>, pages, max_events)) :
        pages \in TrailChoices(username)}
    \cup {TaskResult("error", <<>>), TaskResult("exception", <<>>)}

\* bounds of the trails explored step by step
MaxPages == 3       \* pages lookup_events holds for the user
MaxPageLen == 2     \* events in one page
MaxCap == 3         \* the max_events argument

\* a trail: the user's events, numbered in the API's native order, cut into
\* pages of the given sizes
RECURSIVE PagesOfSizes(_, _, _)
PagesOfSizes(username, sizes, from) ==
    IF sizes = <<>> THEN <<>>
    ELSE <<[k \in 1..Head(sizes) |-> RawEvent(username, from + k)]>>
             \o PagesOfSizes(username, Tail(sizes), from + Head(sizes))

\* the paginator yields at least one page; a page may be empty
Trails(username) ==
    {PagesOfSizes(username, sizes, 0) :
        sizes \in UNION {[1..n -> 0..MaxPageLen] : n \in 1..MaxPages}}

\* the trail with the CloudTrailEvent of its j-th event replaced
WithPayload(pages, j, payload) ==
    [p \in 1..Len(pages) |->
        [k \in 1..Len(pages[p]) |->
            IF pages[p][k].EventId[2] = j
            THEN [pages[p][k] EXCEPT !.CloudTrailEvent = payload]
            ELSE pages[p][k]]]

\* the trails explored: every event carries a JSON object, but for at most
\* one event, which carries any of the payloads
LookInputs ==
    {[username |-> "alice", max_events |-> c, pages |-> WithPayload(t, j, payload)] :
        c \in 1..MaxCap, t \in Trails("alice"),
        j \in 1..(MaxPages * MaxPageLen), payload \in Payloads}

NoLookInput == [username |-> None, max_events |-> 1, pages |-> <<>>]

LookIdle ==
    /\ lookPc = "idle"
    /\ pagesRequested = 0
    /\ all_events = <<>>
    /\ lookResult = NoTaskResult

LookOff == LookIdle /\ lookInput = NoLookInput

\* all_events = [], the paginator is built
LookStart ==
    /\ lookPc = "idle"
    /\ lookPc' = "paging"
    /\ UNCHANGED <<lookInput, pagesRequested, all_events, lookResult>>
    /\ UNCHANGED notLookVars

\* one turn of 'for page in page_iterator': the page is requested, its
\* events are taken up to max_events, and the loop is left once max_events
\* are held; a ClientError of the request returns the error with no events
LookPage ==
    /\ lookPc = "paging"
    /\ pagesRequested < Len(lookInput.pages)
    /\ pagesRequested' = pagesRequested + 1
    /\ \E outcome \in {"ok", "ClientError"} :
        IF outcome = "ok"
        THEN LET page == lookInput.pages[pagesRequested + 1]
                 got == TakePage(all_events, page, lookInput.max_events)
             IN IF PageRaises(all_events, page, lookInput.max_events)
                THEN \* no handler in this function: the task ends with
                     \* the exception
                     /\ lookPc' = "raised"
                     /\ lookResult' = TaskResult("exception", <<>>)
                     /\ UNCHANGED all_events
                ELSE /\ all_events' = got
                     /\ IF Len(got) >= lookInput.max_events
                        THEN /\ lookPc' = "returned"
                             /\ lookResult' = TaskResult("events", got)
                        ELSE UNCHANGED <<lookPc, lookResult>>
        ELSE /\ lookPc' = "returned"
             /\ lookResult' = TaskResult("error", <<>>)
             /\ UNCHANGED all_events
    /\ UNCHANGED lookInput
    /\ UNCHANGED notLookVars

\* the paginator has no further page: return {"events": all_events}
LookEnd ==
    /\ lookPc = "paging"
    /\ pagesRequested = Len(lookInput.pages)
    /\ lookPc' = "returned"
    /\ lookResult' = TaskResult("events", all_events)
    /\ UNCHANGED <<lookInput, pagesRequested, all_events>>
    /\ UNCHANGED notLookVars

\* an entry of users_data
UserEntry(username, events, error, active, reason) ==
    [username |-> username, events |-> events, error |-> error,
     has_activity |-> active, should_skip_role_creation |-> ~active,
     skip_reason |-> reason]

\* the mutant of EntryFor: a principal without events is taken for active
EntryForEmptyIsActive(username, res) ==
    [username |-> username, events |-> res.events,
     error |-> IF res.kind = "events" THEN None ELSE res.kind,
     has_activity |-> res.kind = "events",
     should_skip_role_creation |-> res.kind # "events",
     skip_reason |-> IF res.kind = "events" THEN None ELSE "Error"]

\* the entry the as_completed loop appends for a finished task
EntryFor(username, res) ==
    CASE res.kind = "error" ->
           [username |-> username, events |-> <<>>,
            error |-> "Error getting CloudTrail events", has_activity |-> FALSE,
            should_skip_role_creation |-> TRUE,
            skip_reason |-> "Error fetching CloudTrail events"]
      [] res.kind = "exception" ->
           [username |-> username, events |-> <<>>, error |-> "exception",
            has_activity |-> FALSE, should_skip_role_creation |-> TRUE,
            skip_reason |-> "Exception occurred"]
      [] OTHER ->
           LET has_events == Len(res.events) > 0 IN
           [username |-> username, events |-> res.events, error |-> None,
            has_activity |-> has_events,
            should_skip_role_creation |-> ~has_events,
            skip_reason |-> IF ~has_events THEN "No CloudTrail events found - cannot determine required permissions"
                            ELSE None]

\* the mutant of ErrorsFor: a raised exception is not recorded
ErrorsForDropsExceptions(username, res) ==
    IF res.kind = "error"
    THEN <<<<"Error getting CloudTrail events", username>>>>
    ELSE <<>>

\* the error the as_completed loop appends, if any
ErrorsFor(username, res) ==
    CASE res.kind = "error"     -> <<<<"Error getting CloudTrail events", username>>>>
      [] res.kind = "exception" -> <<<<"Exception for user", username>>>>
      [] OTHER                  -> <<>>

\* the mutant of SelectedUsers: a specific user is taken as given
SelectedUsersSpecificUnchecked(specific_user, listed) ==
    IF specific_user # None THEN <<specific_user>>
    ELSE SelectSeq(listed, LAMBDA u : u # "DeploymentUser")

\* the users fetch_events collects for: the one given, or those listed,
\* without DeploymentUser
SelectedUsers(specific_user, listed) ==
    IF specific_user # None
    THEN IF specific_user = "DeploymentUser" THEN <<>> ELSE <<specific_user>>
    ELSE SelectSeq(listed, LAMBDA u : u # "DeploymentUser")

\* 'Get IAM users': for a specific user no call is made
FetchGetUsers ==
    /\ fetPc = "get_users"
    /\ fetInput.action = "fetch_events"
    /\ \E outcome \in IF fetInput.specific_user # None THEN {"ok"} ELSE CallOutcomes :
        /\ fetCalls' = IF fetInput.specific_user # None THEN fetCalls
                       ELSE Append(fetCalls,
                              FetCall("list_users", Via(session), outcome, None))
        /\ IF outcome = "ok"
           THEN LET users == SelectedUsers(fetInput.specific_user, accountUsers) IN
                /\ iam_users' = users
                /\ IF users = <<>>
                   THEN /\ fetPc' = "returned"
                        /\ fetResult' = FetchReport(None, <<>>, errors,
                                            FetchSummary(0, 0, 0, 0, <<>>, FALSE))
                   ELSE /\ fetPc' = "submit"
                        /\ UNCHANGED fetResult
           ELSE /\ fetPc' = "returned"
                /\ fetResult' = FailureReport(fetInput.action, outcome,
                                    "Error getting IAM users", errors)
                /\ UNCHANGED iam_users
    /\ UNCHANGED <<fetInput, session, accountUsers, lookupCalls, usernames, cleanIdx,
                   cleanup_results, submitted, futures, users_data, errors,
                   total_events>>
    /\ UNCHANGED notFetVars

\* executor.submit(fetch_user_events, user), for the users in order
Submit ==
    /\ fetPc = "submit"
    /\ submitted' = submitted + 1
    /\ futures' = Append(futures, [state |-> "queued", result |-> NoTaskResult])
    /\ fetPc' = IF submitted' = Len(iam_users) THEN "as_completed" ELSE "submit"
    /\ UNCHANGED <<fetInput, session, accountUsers, fetCalls, lookupCalls, usernames, cleanIdx,
                   cleanup_results, iam_users, users_data, errors, total_events,
                   fetResult>>
    /\ UNCHANGED notFetVars

Running == {i \in 1..Len(futures) : futures[i].state = "running"}
Queued == {i \in 1..Len(futures) : futures[i].state = "queued"}

\* the mutant of WorkerFree: the pool starts a thread for every task
WorkerFreeUnbounded(running) == TRUE

\* a worker thread of the pool is free to take a task
WorkerFree(running) == Cardinality(running) < max_workers

\* a worker takes the oldest queued task and starts fetch_user_events
TaskStart(i) ==
    /\ i \in Queued
    /\ \A j \in Queued : i <= j
    /\ WorkerFree(Running)
    /\ futures' = [futures EXCEPT ![i].state = "running"]
    /\ UNCHANGED <<fetInput, fetPc, session, accountUsers, fetCalls, lookupCalls, usernames,
                   cleanIdx, cleanup_results, iam_users, submitted, users_data,
                   errors, total_events, fetResult>>
    /\ UNCHANGED notFetVars

\* the mutant of AfterTask: the worker thread appends its entry itself
AfterTaskWorkerAppends(data, username, res) ==
    Append(data, [username |-> username, events |-> res.events, error |-> None,
                  has_activity |-> Len(res.events) > 0,
                  should_skip_role_creation |-> Len(res.events) = 0,
                  skip_reason |-> None])

\* what a worker thread does to users_data: fetch_user_events only returns
\* (username, result) through its future and touches none of the aggregates
AfterTask(data, username, res) == data

\* the task runs _get_cloudtrail_events_for_user to its end
TaskFinish(i) ==
    /\ i \in Running
    /\ \E res \in TaskOutcomes(iam_users[i]) :
        /\ futures' = [futures EXCEPT ![i] = [state |-> "done", result |-> res]]
        /\ lookupCalls' = lookupCalls \cup
                           {FetCall("lookup_events", Via(session), res.kind,
                                    iam_users[i])}
        /\ users_data' = AfterTask(users_data, iam_users[i], res)
    /\ UNCHANGED <<fetInput, fetPc, session, accountUsers, fetCalls, usernames, cleanIdx,
                   cleanup_results, iam_users, submitted, errors,
                   total_events, fetResult>>
    /\ UNCHANGED notFetVars

RECURSIVE SkipNames(_)
SkipNames(data) ==
    IF data = <<>> THEN <<>>
    ELSE IF Head(data).should_skip_role_creation
         THEN <<Head(data).username>> \o SkipNames(Tail(data))
         ELSE SkipNames(Tail(data))

\* the mutant of CollectedReport: a principal whose collection failed is not
\* counted among the users without activity
CollectedReportFailedNotCounted(users, data, errs, events) ==
    FetchReport(None, data, errs,
        FetchSummary(Len(users), events,
            Cardinality({k \in 1..Len(data) : data[k].has_activity}),
            Cardinality({k \in 1..Len(data) :
                data[k].should_skip_role_creation /\ data[k].error = None}),
            SkipNames(data), TRUE))

\* the report _run builds once _fetch_all_events_parallel has returned
CollectedReport(users, data, errs, events) ==
    FetchReport(None, data, errs,
        FetchSummary(Len(users), events,
            Cardinality({k \in 1..Len(data) : data[k].has_activity}),
            Cardinality({k \in 1..Len(data) : data[k].should_skip_role_creation}),
            SkipNames(data), TRUE))

\* one turn of 'for future in as_completed(future_to_user)'; after the last
\* future the report is built and returned
Collect(i) ==
    /\ fetPc = "as_completed"
    /\ i \in 1..Len(futures)
    /\ futures[i].state = "done"
    /\ LET res == futures[i].result
           data == Append(users_data, EntryFor(iam_users[i], res))
           errs == errors \o ErrorsFor(iam_users[i], res)
           events == IF res.kind = "events" THEN total_events + Len(res.events)
                     ELSE total_events
           fs == [futures EXCEPT ![i].state = "yielded"]
       IN /\ futures' = fs
          /\ users_data' = data
          /\ errors' = errs
          /\ total_events' = events
          /\ IF \A k \in 1..Len(fs) : fs[k].state = "yielded"
             THEN /\ fetPc' = "returned"
                  /\ fetResult' = CollectedReport(iam_users, data, errs, events)
             ELSE UNCHANGED <<fetPc, fetResult>>
    /\ UNCHANGED <<fetInput, session, accountUsers, fetCalls, lookupCalls, usernames, cleanIdx,
                   cleanup_results, iam_users, submitted>>
    /\ UNCHANGED notFetVars

WaitIdle ==
    /\ waitPc = "idle"
    /\ elapsed = 0
    /\ polls = 0
    /\ sleeps = 0
    /\ status_response = NoResponse
    /\ observed = <<>>
    /\ waitResult = NoWaitResult

FetIdle ==
    /\ fetPc = "idle"
    /\ session = None
    /\ fetCalls = <<>>
    /\ lookupCalls = {}
    /\ usernames = <<>>
    /\ cleanIdx = 0
    /\ cleanup_results = <<>>
    /\ iam_users = <<>>
    /\ submitted = 0
    /\ futures = <<>>
    /\ users_data = <<>>
    /\ errors = <<>>
    /\ total_events = 0
    /\ fetResult = NoFetResult

\* cleanup is explored with every protected list over the usernames;
\* fetch_events with none given and with one given
ProtectedChoices(action) ==
    IF action = "cleanup_users"
    THEN {NotGiven} \cup {Given(names) : names \in SUBSET Usernames}
    ELSE {NotGiven, Given({"alice"})}

FetInputs(action) ==
    { [action |-> action, specific_user |-> u, customer_account_id |-> a,
       protected_users |-> p] :
      u \in IF action = "cleanup_users" THEN {None} ELSE {None} \cup Usernames,
      a \in AccountIds,
      p \in ProtectedChoices(action) }

(***************************************************************************)
(* _assume_cross_account_role (one copy in each of the three tools) and    *)
(* the entry points that call it                                           *)
(***************************************************************************)

\* the default of cross_account_role_name in CloudTrailEventsFetcher and
\* SCATool (AWSRoleCreator's default is cross_account_role_name above)
fetcher_cross_account_role_name == "CyberArkRoleSCA-3436d390-d01e-11f0-91ee-0e1617ad5923"

\* the entry points that broker credentials
CreatorEntries == {"AWSRoleCreator._run", "create_least_privilege_role_from_events"}
FetcherEntries == {"fetch_events", "cleanup_users"}
ScaEntries == {"SCATool._run"}
BrokerEntries == CreatorEntries \cup FetcherEntries \cup ScaEntries

DefaultRoleName(entry) ==
    IF entry \in CreatorEntries THEN cross_account_role_name
    ELSE fetcher_cross_account_role_name

\* external_id: None (the default), the empty string, or an id
ExternalIds == {None, "", "ext-1"}

\* the arguments of an invocation that matter to the brokering; only SCATool
\* takes a session
BrokerInputsOf(entry) ==
    { [entry |-> entry, customer_account_id |-> a, cross_account_role_name |-> r,
       external_id |-> x, session |-> s] :
      a \in AccountIds, r \in {DefaultRoleName(entry), "CustomRole"},
      x \in ExternalIds,
      s \in IF entry \in ScaEntries THEN {None, "given"} ELSE {None} }

BrokerInputs == UNION {BrokerInputsOf(entry) : entry \in BrokerEntries}

\* 'if customer_account_id:' ('... and not session:' in SCATool._run)
Brokers(input) ==
    /\ input.customer_account_id # None
    /\ input.entry \in ScaEntries => input.session = None

\* the call self._assume_cross_account_role(customer_account_id,
\* cross_account_role_name, external_id); from_events hands its three
\* arguments to _run by keyword first
AssumeArgs(input) ==
    [customer_account_id |-> input.customer_account_id,
     role_name |-> input.cross_account_role_name,
     external_id |-> input.external_id]

NoAssumeArgs == [customer_account_id |-> None, role_name |-> None,
                 external_id |-> None]

\* a key that is not in assume_role_params
Omitted == "<omitted>"

\* the mutant of AssumeRoleParams: ExternalId is never added
AssumeRoleParamsNoExternalId(args) ==
    [RoleArn |-> RoleArn(args.customer_account_id, args.role_name),
     ExternalId |-> Omitted]

\* assume_role_params: RoleArn, and ExternalId 'if external_id:' (the
\* RoleSessionName, a timestamp, is left out)
AssumeRoleParams(args) ==
    [RoleArn |-> RoleArn(args.customer_account_id, args.role_name),
     ExternalId |-> IF args.external_id \notin {None, ""} THEN args.external_id
                    ELSE Omitted]

\* what sts.assume_role can do: answer with credentials, refuse with a
\* ClientError (AccessDenied), answer without 'Credentials' (the lookup
\* response['Credentials'] then raises KeyError), or fail with an exception
\* that is not a ClientError (a botocore connection error)
StsOutcomes == {"ok", "AccessDenied", "NoCredentials", "EndpointConnectionError"}

\* what _assume_cross_account_role does: the dict it returns, or that an
\* exception left it ('except ClientError' is its only handler)
NoAssumeError == [message |-> None, role_arn |-> <<>>, cause |-> None]
NoAssumeResult == [raised |-> FALSE, session |-> None, account_id |-> None,
                   role_arn |-> <<>>, error |-> NoAssumeError, exception |-> None]
AssumeCrossAccountRole(args, outcome) ==
    LET role_arn == RoleArn(args.customer_account_id, args.role_name) IN
    CASE outcome = "ok" ->
           [raised |-> FALSE, session |-> "assumed",
            account_id |-> args.customer_account_id, role_arn |-> role_arn,
            error |-> NoAssumeError, exception |-> None]
      [] outcome = "AccessDenied" ->
           [raised |-> FALSE, session |-> None,
            account_id |-> args.customer_account_id, role_arn |-> role_arn,
            \* f"Failed to assume cross-account role {role_arn}: {str(e)}"
            error |-> [message |-> "Failed to assume cross-account role",
                       role_arn |-> role_arn, cause |-> outcome],
            exception |-> None]
      [] outcome = "NoCredentials" ->
           [NoAssumeResult EXCEPT !.raised = TRUE, !.exception = "KeyError"]
      [] OTHER ->
           [NoAssumeResult EXCEPT !.raised = TRUE, !.exception = outcome]

\* what the entry point does with the broker's answer: it goes on with the
\* assumed session, returns an error result, or raises.  SCATool._run turns a
\* returned error into a RuntimeError and has no handler around the call;
\* the other entry points return the error, and their 'except Exception'
\* turns an exception into an 'Unexpected error' result.
AfterAssume(entry, result) ==
    IF ~result.raised /\ result.error = NoAssumeError THEN "proceeds"
    ELSE IF entry \in ScaEntries THEN "raised"
    ELSE "error_result"

\* the entry point is invoked, up to the call of _assume_cross_account_role
\* (without customer_account_id no credentials are brokered)
BrokerEnter ==
    /\ brokerPc = "idle"
    /\ IF Brokers(brokerInput)
       THEN /\ brokerPc' = "assume"
            /\ assume_args' = AssumeArgs(brokerInput)
       ELSE /\ brokerPc' = "proceeds"
            /\ UNCHANGED assume_args
    /\ UNCHANGED <<brokerInput, stsRequests, assume_result>>
    /\ UNCHANGED notBrokerVars

\* _assume_cross_account_role: the one sts.assume_role request and what
\* becomes of its answer
StsAssumeRole ==
    /\ brokerPc = "assume"
    /\ \E outcome \in StsOutcomes :
        /\ stsRequests' = Append(stsRequests,
                              [params |-> AssumeRoleParams(assume_args),
                               outcome |-> outcome])
        /\ assume_result' = AssumeCrossAccountRole(assume_args, outcome)
    /\ brokerPc' = "assumed"
    /\ UNCHANGED <<brokerInput, assume_args>>
    /\ UNCHANGED notBrokerVars

\* back in the entry point: 'if assume_result["error"]', or the handler of
\* the exception
BrokerResume ==
    /\ brokerPc = "assumed"
    /\ brokerPc' = AfterAssume(brokerInput.entry, assume_result)
    /\ UNCHANGED <<brokerInput, assume_args, stsRequests, assume_result>>
    /\ UNCHANGED notBrokerVars

NoBrokerInput ==
    [entry |-> None, customer_account_id |-> None,
     cross_account_role_name |-> None, external_id |-> None, session |-> None]

BrokerIdle ==
    /\ brokerPc = "idle"
    /\ assume_args = NoAssumeArgs
    /\ stsRequests = <<>>
    /\ assume_result = NoAssumeResult

BrokerOff == BrokerIdle /\ brokerInput = NoBrokerInput

(***************************************************************************)
(* create_least_privilege_role_from_events: the analysis of the events,    *)
(* one event at a time                                                     *)
(***************************************************************************)

\* bound of the event lists analysed step by step
MaxSynthEvents == 5

SynthInputs == SeqsUpTo(EventUniverse, MaxSynthEvents)

\* the mutant of ActionOf: the event source is used as it is
ActionOfKeepsSuffix(event) == event.event_source \o <<":", event.event_name>>

\* service = event['event_source'].replace('.amazonaws.com', '');
\* action = f"{service}:{event_name}"
ActionOf(event) ==
    Replace(event.event_source, AwsSuffix) \o <<":", event.event_name>>

\* the resource names one event adds: those of its resources that have a
\* (non-empty) ResourceName
ResourceNamesOf(event) ==
    { event.resources[k].ResourceName :
        k \in { l \in 1..Len(event.resources) :
                  event.resources[l].ResourceName # "" } }

\* actions = set(), resources = set()
SynthStart ==
    /\ synthPc = "idle"
    /\ synthPc' = "for"
    /\ synthIdx' = 1
    /\ synthActions' = {}
    /\ synthResources' = {}
    /\ UNCHANGED <<synthInput, synthPolicy>>
    /\ UNCHANGED notSynthVars

\* one turn of 'for event in cloudtrail_events'
SynthEvent ==
    /\ synthPc = "for"
    /\ synthIdx <= Len(synthInput)
    /\ LET event == synthInput[synthIdx] IN
       /\ synthActions' =
             IF event.event_name # "" /\ event.event_source # <<>>
             THEN synthActions \cup {ActionOf(event)}
             ELSE synthActions
       /\ synthResources' = synthResources \cup ResourceNamesOf(event)
    /\ synthIdx' = synthIdx + 1
    /\ UNCHANGED <<synthPc, synthInput, synthPolicy>>
    /\ UNCHANGED notSynthVars

\* after the loop: the wildcard when no resource was found, and the
\* permission policy with the fallback action when no action was found
SynthPolicy ==
    /\ synthPc = "for"
    /\ synthIdx > Len(synthInput)
    /\ LET res == IF synthResources = {} THEN {"*"} ELSE synthResources IN
       /\ synthResources' = res
       /\ synthPolicy' =
             [Action |-> IF synthActions # {} THEN synthActions
                         ELSE {<<"s3", ":", "GetObject">>},
              Resource |-> res, Principal |-> {}, Sid |-> 0]
    /\ synthPc' = "built"
    /\ UNCHANGED <<synthInput, synthIdx, synthActions>>
    /\ UNCHANGED notSynthVars

SynthIdle ==
    /\ synthPc = "idle"
    /\ synthIdx = 0
    /\ synthActions = {}
    /\ synthResources = {}
    /\ synthPolicy = EmptyDoc

SynthOff == SynthIdle /\ synthInput = <<>>

(***************************************************************************)
(* SCATool.create_policy and SCATool.rescan: submit the job, then wait     *)
(***************************************************************************)

ActActions == {"create_policy", "rescan"}

\* the job id a submission response may carry under the key the action reads
\* ('job_id' for create_policy, 'jobId' for rescan): none, empty, or an id
JobIds == {None, "", "job-1"}

\* what the submission can do: the token request or the POST raises (an HTTP
\* error status included), or the response's JSON is returned
SubmitOutcomes ==
    {[raised |-> TRUE, job_id |-> None]}
        \cup {[raised |-> FALSE, job_id |-> j] : j \in JobIds}

NoSubmitResponse == [raised |-> FALSE, job_id |-> None]

\* what the action returns or raises
NoActResult == [kind |-> None, job_id |-> None, final_status |-> NoResponse,
                success |-> FALSE]

\* the mutant of SuccessFlag: every returned status counts as success
SuccessFlagAnyStatus(job_status) == TRUE

\* job_status.get('status', '').lower() in ['success', 'completed']
SuccessFlag(job_status) == LowerStatus(job_status) \in {"success", "completed"}

\* the token is fetched and the job is posted; without a job id in the
\* response the response itself is returned
ActSubmit ==
    /\ actPc = "idle"
    /\ \E out \in SubmitOutcomes :
        /\ submit_response' = out
        /\ IF out.raised
           THEN \* 'except Exception': logged and raised again
                /\ actPc' = "raised"
                /\ actResult' = [NoActResult EXCEPT !.kind = "raise"]
           ELSE IF out.job_id \in {None, ""}
           THEN /\ actPc' = "returned"
                /\ actResult' = [NoActResult EXCEPT !.kind = "raw_response",
                                                    !.job_id = out.job_id]
           ELSE /\ actPc' = "waiting"
                /\ UNCHANGED actResult
    /\ UNCHANGED actInput
    /\ UNCHANGED notActVars

\* wait_for_job_completion has ended: its exception is raised again, or the
\* combined response is returned
ActFinish ==
    /\ actPc = "waiting"
    /\ waitPc \in {"returned", "raised"}
    /\ IF waitPc = "raised"
       THEN /\ actPc' = "raised"
            /\ actResult' = [NoActResult EXCEPT !.kind = "raise",
                                                !.job_id = submit_response.job_id]
       ELSE /\ actPc' = "returned"
            /\ actResult' = [kind |-> "combined", job_id |-> submit_response.job_id,
                             final_status |-> waitResult.payload,
                             success |-> SuccessFlag(waitResult.payload)]
    /\ UNCHANGED <<actInput, submit_response>>
    /\ UNCHANGED notActVars

ActIdle ==
    /\ actPc = "idle"
    /\ submit_response = NoSubmitResponse
    /\ actResult = NoActResult

ActOff == ActIdle /\ actInput = None

(***************************************************************************)
(* Specifications: one per tool                                            *)
(***************************************************************************)

NoFetInput == [action |-> None, specific_user |-> None, customer_account_id |-> None,
               protected_users |-> NotGiven]
FetOff == FetIdle /\ fetInput = NoFetInput /\ accountUsers = <<>>
NoProvInput == CHOOSE i \in ProvInputs : i.entry = "_run" /\ i.role_name = ""
ProvOff == ProvIdle /\ provInput = NoProvInput /\ roles = {}

\* no deadline has expired when an invocation starts
NoDeadline == deadline_passed = FALSE

WaitInit == WaitIdle /\ ProvOff /\ FetOff /\ LookOff /\ BrokerOff /\ SynthOff /\ ActOff /\ NoDeadline

WaitNext == WaitStart \/ LoopPoll \/ Sleep \/ FinalCheck

WaitSpec == WaitInit /\ [][WaitNext]_vars

\* the calling thread keeps running: a pending poll, sleep or final check is
\* eventually carried out (time.sleep returns, the status call returns or raises)
WaitFairSpec == WaitInit /\ [][WaitNext]_vars /\ WF_vars(WaitNext)

ProvSpecInit == WaitIdle /\ FetOff /\ ProvInit /\ LookOff /\ BrokerOff /\ SynthOff /\ ActOff /\ NoDeadline

ProvSpec == ProvSpecInit /\ [][ProvNext]_vars

CleanupInit ==
    /\ WaitIdle /\ ProvOff /\ FetIdle /\ LookOff /\ BrokerOff /\ SynthOff /\ ActOff /\ NoDeadline
    /\ fetInput \in FetInputs("cleanup_users")
    /\ accountUsers \in UserLists

CleanupNext == FetStart \/ FetAssume \/ CleanupListUsers \/ DeleteUser

CleanupSpec == CleanupInit /\ [][CleanupNext]_vars

FetchInit ==
    /\ WaitIdle /\ ProvOff /\ FetIdle /\ LookOff /\ BrokerOff /\ SynthOff /\ ActOff /\ NoDeadline
    /\ fetInput \in FetInputs("fetch_events")
    /\ accountUsers \in UserLists

FetchNext ==
    \/ FetStart \/ FetAssume \/ FetchGetUsers \/ Submit
    \/ \E i \in 1..MaxUsers : TaskStart(i) \/ TaskFinish(i) \/ Collect(i)

FetchSpec == FetchInit /\ [][FetchNext]_vars

LookInit ==
    /\ WaitIdle /\ ProvOff /\ FetOff /\ BrokerOff /\ SynthOff /\ ActOff /\ NoDeadline
    /\ LookIdle
    /\ lookInput \in LookInputs

LookNext == LookStart \/ LookPage \/ LookEnd

LookSpec == LookInit /\ [][LookNext]_vars

BrokerInit ==
    /\ WaitIdle /\ ProvOff /\ FetOff /\ LookOff /\ SynthOff /\ ActOff /\ NoDeadline
    /\ BrokerIdle
    /\ brokerInput \in BrokerInputs

BrokerNext == BrokerEnter \/ StsAssumeRole \/ BrokerResume

BrokerSpec == BrokerInit /\ [][BrokerNext]_vars

SynthInit ==
    /\ WaitIdle /\ ProvOff /\ FetOff /\ LookOff /\ BrokerOff /\ ActOff /\ NoDeadline
    /\ SynthIdle
    /\ synthInput \in SynthInputs

SynthNext == SynthStart \/ SynthEvent \/ SynthPolicy

SynthSpec == SynthInit /\ [][SynthNext]_vars

ActInit ==
    /\ WaitIdle /\ ProvOff /\ FetOff /\ LookOff /\ BrokerOff /\ SynthOff /\ NoDeadline
    /\ ActIdle
    /\ actInput \in ActActions

\* the poller runs only between the submission and the action's return
ActNext == ActSubmit \/ (actPc = "waiting" /\ WaitNext) \/ ActFinish

ActSpec == ActInit /\ [][ActNext]_vars

\* the invocation-level deadline expires while the job poller or the
\* collection fan-out is under way.  Neither wait_for_job_completion nor
\* _fetch_all_events_parallel takes or reads a deadline: no step of theirs
\* depends on deadline_passed.
DeadlinePasses ==
    /\ ~deadline_passed
    /\ \/ waitPc \in {"while", "sleep"}
       \/ fetPc \in {"submit", "as_completed"}
    /\ deadline_passed' = TRUE
    /\ UNCHANGED <<waitVars, provVars, fetVars, lookVars, brokerVars, synthVars,
                   actVars>>

DeadlineInit == WaitInit \/ FetchInit

DeadlineNext ==
    \/ fetInput = NoFetInput /\ WaitNext
    \/ fetInput.action = "fetch_events" /\ FetchNext
    \/ DeadlinePasses

DeadlineSpec == DeadlineInit /\ [][DeadlineNext]_vars

\* the three tools side by side: from each tool's initial states, that tool's
\* steps (the other tools stay idle)
ToolsInit == ProvSpecInit \/ CleanupInit \/ FetchInit

ToolsNext ==
    \/ fetInput = NoFetInput /\ ProvNext
    \/ fetInput.action = "cleanup_users" /\ CleanupNext
    \/ fetInput.action = "fetch_events" /\ FetchNext

ToolsSpec == ToolsInit /\ [][ToolsNext]_vars

(***************************************************************************)
(* Properties                                                              *)
(***************************************************************************)

Created(k) == provLog[k].result.status = "success"
Settled(k) == provLog[k].result.status \in {"success", "already_exists"}
AllOk(calls) == \A c \in 1..Len(calls) : calls[c].outcome = "ok"

\* C1 (as claimed): whenever provision is invoked a second time with the same
\* (well-formed) spec, the second call yields already_exists and makes no
\* create_role and no put_role_policy call, whatever the first call's outcome.
C1_SecondCallAlwaysAlreadyExists ==
    (ValidationError(RunArgs(provInput)) = None /\ Len(provLog) >= 2) =>
        /\ provLog[2].result.status = "already_exists"
        /\ Mutating(provLog[2].calls) = {}

\* C1 (amended): once an invocation has returned success (created) or
\* already_exists, every later invocation with the same spec makes no
\* create_role and no put_role_policy call, and it returns already_exists
\* exactly when its own assume_role and get_role calls succeed (otherwise it
\* returns that call's error).
C1_RepeatAfterSuccessIsIdempotent ==
    /\ \A i, j \in 1..Len(provLog) :
         (i < j /\ Settled(i)) =>
            /\ Mutating(provLog[j].calls) = {}
            /\ provLog[j].calls # <<>>
            /\ (provLog[j].result.status = "already_exists")
                   <=> AllOk(provLog[j].calls)
            /\ provLog[j].result.status # "success"
    /\ (provPc # "idle" /\ \E i \in 1..Len(provLog) : Settled(i)) =>
         Mutating(remoteCalls) = {}

\* C1 witness: a first call created the role and the second call, made with
\* the same spec, has returned already_exists
C1_Witness ==
    /\ Len(provLog) = 2
    /\ Created(1)
    /\ Mutating(provLog[1].calls) # {}
    /\ provLog[2].result.status = "already_exists"

\* the ordering rules of the remote calls of one invocation
CheckedBeforeCreate(calls) ==
    /\ \A k \in 1..Len(calls) :
         calls[k].op = "create_role" =>
            \E j \in 1..(k - 1) :
                calls[j].op = "get_role" /\ calls[j].outcome = "NoSuchEntity"
    /\ \A k \in 1..Len(calls) :
         calls[k].op = "put_role_policy" =>
            \E j \in 1..(k - 1) :
                calls[j].op = "create_role" /\ calls[j].outcome = "ok"
    /\ \A k \in 1..Len(calls) :
         (calls[k].op = "get_role" /\ calls[k].outcome # "NoSuchEntity") =>
            Mutating(calls) = {}

\* C2: in every invocation get_role precedes create_role, which is called
\* only after get_role answered NoSuchEntity; when get_role finds the role the
\* call returns already_exists with the existing role's ARN and attributes
\* (the role as it was before the call) and makes no mutating call; any other
\* get_role error returns an error result and makes no mutating call.
C2_ExistenceCheckPrecedesCreation ==
    /\ CheckedBeforeCreate(remoteCalls)
    /\ \A i \in 1..Len(provLog) :
         LET calls == provLog[i].calls
             result == provLog[i].result
         IN /\ CheckedBeforeCreate(calls)
            /\ \A k \in 1..Len(calls) :
                 calls[k].op = "get_role" =>
                    CASE calls[k].outcome = "ok" ->
                           /\ result.status = "already_exists"
                           /\ result.error = None
                           /\ result.role_details \in roles
                           /\ result.role_details.name = RunArgs(provInput).role_name
                           /\ result.role_arn = result.role_details.arn
                           /\ result.role_details.createdBy < i
                      [] calls[k].outcome = "NoSuchEntity" ->
                           result.status # "already_exists"
                      [] OTHER ->
                           /\ result.status = None
                           /\ result.error # None
            /\ result.status = "already_exists" =>
                 \E k \in 1..Len(calls) :
                     calls[k].op = "get_role" /\ calls[k].outcome = "ok"

\* C2 witness: an invocation found the role and returned already_exists, and
\* another one created it after NoSuchEntity
C2_Witness ==
    /\ Len(provLog) = 2
    /\ provLog[2].result.status = "already_exists"
    /\ \E k \in 1..Len(provLog[1].calls) :
          provLog[1].calls[k].op = "create_role"

\* the protected list in force: the caller's, or the default when none is given
ProtectedInForce ==
    IF fetInput.protected_users.given THEN fetInput.protected_users.names
    ELSE DefaultProtectedUsers

\* C3: cleanup never calls delete_user with a username of the protected list
\* in force; each such username the loop reaches gets a 'skipped' entry (and
\* only such usernames do), the protected users stay in the account, and a
\* completed cleanup reports one entry per enumerated user.
C3_ProtectedNeverDeleted ==
    /\ \A k \in 1..Len(fetCalls) :
         fetCalls[k].op = "delete_user" => fetCalls[k].user \notin ProtectedInForce
    /\ \A k \in 1..Len(cleanup_results) :
         /\ cleanup_results[k].username = usernames[k]
         /\ (usernames[k] \in ProtectedInForce)
                <=> (cleanup_results[k].status = "skipped")
    /\ fetPc = "delete" => Len(cleanup_results) = cleanIdx - 1
    /\ \A k \in 1..Len(usernames) :
         usernames[k] \in ProtectedInForce =>
            \E m \in 1..Len(accountUsers) : accountUsers[m] = usernames[k]
    /\ (fetResult.returned /\ fetResult.success) =>
         /\ fetResult.cleanup_results = cleanup_results
         /\ Len(cleanup_results) = Len(usernames)

\* C3 witness: a completed cleanup under the default list that skipped a
\* protected user listed after a user it deleted
C3_Witness ==
    /\ fetResult.returned /\ fetResult.success
    /\ ~fetInput.protected_users.given
    /\ \E k, m \in 1..Len(fetResult.cleanup_results) :
         /\ k < m
         /\ fetResult.cleanup_results[k].status = "deleted"
         /\ fetResult.cleanup_results[m].status = "skipped"

\* C4 (as claimed): fetch_events issues no lookup_events call for a principal
\* of the protected list in force, and no such principal appears in users_data
\* as eligible for role creation.
C4_ProtectedFilteredBeforeCollection ==
    /\ \A c \in lookupCalls : c.user \notin ProtectedInForce
    /\ \A k \in 1..Len(users_data) :
         users_data[k].username \in ProtectedInForce =>
            users_data[k].should_skip_role_creation

\* C4 (amended): fetch_events filters out the principal named DeploymentUser
\* before collection begins, when listing and when it is the specific_user: it
\* is not among the users collected for, no lookup_events call is issued for it
\* and it has no entry in users_data.
C4_DeploymentUserFilteredBeforeCollection ==
    /\ \A i \in 1..Len(iam_users) : iam_users[i] # "DeploymentUser"
    /\ \A c \in lookupCalls : c.user # "DeploymentUser"
    /\ \A k \in 1..Len(users_data) : users_data[k].username # "DeploymentUser"
    /\ \A k \in 1..Len(fetResult.users_data) :
         fetResult.users_data[k].username # "DeploymentUser"
    /\ (fetPc = "returned" /\ fetInput.specific_user = "DeploymentUser") =>
         (lookupCalls = {} /\ fetResult.summary.total_users_processed = 0)

\* C4 witness: the listing held DeploymentUser and another user, and the
\* collection for the other user has been reported
C4_Witness ==
    /\ fetPc = "returned"
    /\ fetInput.specific_user = None
    /\ \E m \in 1..Len(accountUsers) : accountUsers[m] = "DeploymentUser"
    /\ Len(fetResult.users_data) >= 1
    /\ lookupCalls # {}

\* C5: at most max_workers tasks of the fan-out are running at any time.
C5_AtMostKTasksActive == Cardinality(Running) <= max_workers

\* C5 witness: the pool is full while a submitted task still waits
C5_Witness == Cardinality(Running) = max_workers /\ Queued # {}

EntriesOf(data, username) == {k \in 1..Len(data) : data[k].username = username}
Failed(i) == futures[i].result.kind \in {"error", "exception"}

\* C6: a collection that has returned holds exactly one entry per principal;
\* every task ran; a failed task (error returned or exception raised) gives one
\* entry in errors naming its principal and an entry with empty events, and the
\* other principals' entries carry their events.  While collecting, there is
\* one entry per future taken from as_completed.
C6_OneEntryPerPrincipal ==
    /\ Len(users_data) =
          Cardinality({i \in 1..Len(futures) : futures[i].state = "yielded"})
    /\ (fetPc = "returned" /\ fetResult.summary.has_stats) =>
         /\ Len(fetResult.users_data) = Len(iam_users)
         /\ \A i \in 1..Len(iam_users) :
              /\ futures[i].state = "yielded"
              /\ Cardinality(EntriesOf(fetResult.users_data, iam_users[i])) = 1
              /\ LET entry == fetResult.users_data[
                                CHOOSE k \in EntriesOf(fetResult.users_data,
                                                       iam_users[i]) : TRUE]
                     mine == {k \in 1..Len(fetResult.errors) :
                                 fetResult.errors[k][2] = iam_users[i]}
                 IN IF Failed(i)
                    THEN entry.events = <<>> /\ entry.error # None
                         /\ Cardinality(mine) = 1
                    ELSE entry.events = futures[i].result.events
                         /\ entry.error = None /\ mine = {}

\* C6 witness: three principals, one task returned an error, one raised, and
\* the third principal's events were recorded after both failures
C6_Witness ==
    /\ fetPc = "returned"
    /\ Len(fetResult.users_data) = 3
    /\ fetResult.users_data[1].error = "exception"
    /\ fetResult.users_data[2].error = "Error getting CloudTrail events"
    /\ Len(fetResult.users_data[3].events) > 0

RECURSIVE SeqToSet(_)
SeqToSet(q) == IF q = <<>> THEN {} ELSE {Head(q)} \cup SeqToSet(Tail(q))

\* C7: in every entry of users_data should_skip_role_creation holds exactly
\* when the entry has no event, has_activity is its negation, and the
\* returned summary's users_to_skip names exactly the principals so marked.
C7_InactiveMarkedIneligible ==
    /\ \A k \in 1..Len(users_data) :
         /\ users_data[k].should_skip_role_creation <=> (users_data[k].events = <<>>)
         /\ users_data[k].has_activity <=> ~users_data[k].should_skip_role_creation
    /\ (fetPc = "returned" /\ fetResult.summary.has_stats) =>
         /\ fetResult.users_data = users_data
         /\ SeqToSet(fetResult.summary.users_to_skip) =
               {users_data[k].username :
                   k \in {m \in 1..Len(users_data) : users_data[m].events = <<>>}}
         /\ Len(fetResult.summary.users_to_skip) =
               Cardinality({m \in 1..Len(users_data) : users_data[m].events = <<>>})

\* C7 witness: a report with an active principal, one without events and one
\* whose fetch failed
C7_Witness ==
    /\ fetPc = "returned"
    /\ Len(fetResult.summary.users_to_skip) = 2
    /\ \E k, m, n \in 1..Len(fetResult.users_data) :
         /\ fetResult.users_data[k].has_activity
         /\ fetResult.users_data[m].skip_reason = "No CloudTrail events found - cannot determine required permissions"
         /\ fetResult.users_data[n].error # None

\* C8 (as claimed): when create_least_privilege_role_from_events is handed
\* zero events, no create_role and no put_role_policy call is made.
C8_NoRoleForZeroEvents ==
    (provInput.entry = "from_events" /\ provInput.cloudtrail_events = <<>>) =>
        /\ Mutating(remoteCalls) = {}
        /\ \A i \in 1..Len(provLog) : Mutating(provLog[i].calls) = {}

\* C9 (as claimed): once a poll has observed status failure the call has
\* raised with that payload, and that poll was the last status call.
C9_FailureRaisesAtThatPoll ==
    (status_response # NoResponse /\ LowerStatus(status_response) = "failure") =>
        /\ waitPc = "raised"
        /\ waitResult.kind = "raise"
        /\ waitResult.payload = status_response
        /\ polls = status_response.seq

\* C10: once a poll has observed status success the call has returned that
\* payload, that poll was the last status call and no sleep followed it (every
\* earlier poll was followed by one sleep of poll_interval); a job reporting
\* inprogress, then success, costs two status calls and one sleep.
C10_SuccessReturnsImmediately ==
    /\ (status_response # NoResponse /\ LowerStatus(status_response) = "success") =>
         /\ waitPc = "returned"
         /\ waitResult.kind = "return"
         /\ waitResult.payload = status_response
         /\ polls = status_response.seq
         /\ sleeps = polls - 1
         /\ elapsed = sleeps * poll_interval
    /\ (observed = <<"inprogress", "success">>) =>
         /\ waitPc = "returned"
         /\ polls = 2
         /\ sleeps = 1
         /\ elapsed = poll_interval
         /\ waitResult.payload = StatusResponse("Success", 2)

\* C10 witness: inprogress on the first poll, success on the second
C10_Witness ==
    /\ waitPc = "returned"
    /\ observed = <<"inprogress", "success">>
    /\ waitResult.from = "loop"

\* the number of polls the loop can make: ceil(max_wait_time / poll_interval)
MaxLoopPolls == (max_wait_time + poll_interval - 1) \div poll_interval

\* the job has left InProgress: a status call raised, or answered with
\* another status than InProgress
LeftInProgress ==
    \/ polls # status_response.seq
    \/ status_response # NoResponse /\ status_response.status # "InProgress"

\* the call has returned the payload of the final check, still InProgress
TimedOutInProgress ==
    /\ waitPc = "returned"
    /\ waitResult.kind = "return"
    /\ waitResult.from = "final"
    /\ waitResult.payload = status_response
    /\ status_response.status = "InProgress"

Puts(calls) == {k \in 1..Len(calls) : calls[k].op = "put_role_policy"}
RoleCreatedBy(calls) ==
    \E k \in 1..Len(calls) : calls[k].op = "create_role" /\ calls[k].outcome = "ok"

\* C13 (as claimed): an invocation that created the role has attempted one
\* attachment per permission statement, in order, whatever failed; its status
\* is success (Created) only if every attachment succeeded and partial_failure
\* if any attachment failed.
C13_AllAttemptedAndPartialReported ==
    \A i \in 1..Len(provLog) :
        LET calls == provLog[i].calls
            result == provLog[i].result
            policies == RunArgs(provInput).permission_policies
        IN RoleCreatedBy(calls) =>
            /\ Cardinality(Puts(calls)) = Len(policies)
            /\ \A k, m \in Puts(calls) :
                 k < m => calls[k].policy_name[3] < calls[m].policy_name[3]
            /\ (result.status = "success") =>
                 \A k \in Puts(calls) : calls[k].outcome = "ok"
            /\ (\E k \in Puts(calls) : calls[k].outcome # "ok") =>
                 result.status = "partial_failure"

\* C14 (as claimed): the result of an invocation that created the role lists
\* the names of the statements attached and holds one attachment-error entry
\* per statement whose attachment failed, so that attached count plus error
\* count is the number of permission statements.
C14_AttachmentErrorsReported ==
    \A i \in 1..Len(provLog) :
        LET calls == provLog[i].calls
            result == provLog[i].result
            policies == RunArgs(provInput).permission_policies
        IN RoleCreatedBy(calls) =>
            /\ \A k \in Puts(calls) :
                 calls[k].outcome = "ok" <=>
                    \E a \in 1..Len(result.attached_policies) :
                        result.attached_policies[a] = calls[k].policy_name
            /\ Cardinality({k \in Puts(calls) : calls[k].outcome # "ok"})
                 = Len(AttachmentErrors(result))
            /\ Len(result.attached_policies) + Len(AttachmentErrors(result))
                 = Len(policies)

\* a spec that is not complete: no name, no trust statement or no permission
\* statement
Malformed(a) ==
    \/ a.role_name = ""
    \/ a.trust_policy = EmptyDoc
    \/ Len(a.permission_policies) = 0

ValidationMessages ==
    {"Role name is required", "Trust policy is required",
     "At least one permission policy is required"}

\* C15: an invocation with a malformed spec makes no remote call at all (no
\* assume_role, get_role, create_role, put_role_policy) and returns a
\* validation error; a well-formed spec never gets a validation error.
C15_ValidationBeforeRemoteCalls ==
    LET a == RunArgs(provInput) IN
    /\ Malformed(a) =>
         /\ remoteCalls = <<>>
         /\ provPc = "idle"
         /\ roles \in PreexistingRoles(provInput)
         /\ rolePolicies = {}
         /\ \A i \in 1..Len(provLog) :
              /\ provLog[i].calls = <<>>
              /\ provLog[i].result.status = None
              /\ provLog[i].result.error \in ValidationMessages
    /\ ~Malformed(a) =>
         \A i \in 1..Len(provLog) :
              provLog[i].result.error \notin ValidationMessages

\* C15 witness: a spec with a name and a trust statement but no permission
\* statement has been refused
C15_Witness ==
    LET a == RunArgs(provInput) IN
    /\ a.role_name # ""
    /\ a.trust_policy # EmptyDoc
    /\ Len(a.permission_policies) = 0
    /\ a.customer_account_id # None
    /\ Len(provLog) >= 1
    /\ provLog[1].result.error = "At least one permission policy is required"

\* the remote calls of an operation other than the brokering itself
ScopedOps == {"get_role", "create_role", "put_role_policy",
              "list_users", "lookup_events", "delete_user"}
CallsOf(calls) == {calls[k] : k \in 1..Len(calls)}
BrokeringFailed(calls) ==
    \E c \in calls : c.op = "assume_role" /\ c.outcome # "ok"

\* the rule for the calls of one cross-account operation
ThroughScopedSession(calls) ==
    /\ \A c \in calls : c.op \in ScopedOps => c.via = "assumed"
    /\ (\E c \in calls : c.op \in ScopedOps) =>
          \E c \in calls : c.op = "assume_role" /\ c.outcome = "ok"
    /\ BrokeringFailed(calls) => \A c \in calls : c.op \notin ScopedOps

\* C16: when a customer account id is given, every get_role, create_role and
\* put_role_policy call of the provisioner and every list_users,
\* lookup_events and delete_user call of the collector goes through the
\* assumed session, after a successful assume_role; when assume_role fails
\* the operation returns the error and makes none of these calls.
C16_CrossAccountCallsUseScopedSession ==
    /\ RunArgs(provInput).customer_account_id # None =>
         /\ ThroughScopedSession(CallsOf(remoteCalls))
         /\ \A i \in 1..Len(provLog) :
              /\ ThroughScopedSession(CallsOf(provLog[i].calls))
              /\ BrokeringFailed(CallsOf(provLog[i].calls)) =>
                    /\ provLog[i].result.status = None
                    /\ provLog[i].result.error # None
    /\ fetInput.customer_account_id # None =>
         /\ ThroughScopedSession(CallsOf(fetCalls) \cup lookupCalls)
         /\ BrokeringFailed(CallsOf(fetCalls)) =>
              /\ fetPc = "returned"
              /\ fetResult.error # None \/ fetResult.errors # <<>>
              /\ fetResult.users_data = <<>>
              /\ fetResult.cleanup_results = <<>>

\* C16 witness: a cross-account fetch_events has listed the users and
\* collected events, all through the assumed session
C16_Witness ==
    /\ fetInput.customer_account_id # None
    /\ fetPc = "returned"
    /\ \E c \in CallsOf(fetCalls) : c.op = "list_users" /\ c.via = "assumed"
    /\ \E c \in lookupCalls : c.via = "assumed"

\* C17 (as claimed): once the invocation-level deadline has expired, the job
\* poller makes no further status call and no further sleep and ends with
\* TimedOut, and the collection fan-out starts and finishes no further task
\* and returns the entries it has together with a cancellation error.
C17_DeadlineHonoured ==
    [][deadline_passed =>
          /\ polls' = polls
          /\ sleeps' = sleeps
          /\ (waitPc' = "returned" /\ waitPc # "returned") =>
                 waitResult'.kind = "timed_out"
          /\ \A i \in 1..Len(futures) :
                 futures[i].state \in {"queued", "running"} =>
                    futures'[i].state = futures[i].state
          /\ lookupCalls' = lookupCalls
          /\ (fetPc' = "returned" /\ fetPc # "returned") =>
                 /\ fetResult'.users_data = users_data
                 /\ \E e \in 1..Len(fetResult'.errors) :
                        fetResult'.errors[e] = "cancelled"]_vars

\* the concatenation of the pages, in the API's order
RECURSIVE Flatten(_)
Flatten(pages) ==
    IF pages = <<>> THEN <<>> ELSE Head(pages) \o Flatten(Tail(pages))

\* the number of events in the first k pages
EventsInFirst(pages, k) == Len(Flatten(SubSeq(pages, 1, k)))

\* the flat records of the first n events of the trail
FirstEvents(pages, n) == [k \in 1..n |-> EventData(Flatten(pages)[k])]

Min(a, b) == IF a <= b THEN a ELSE b

\* C18: the events collected for a principal are the first min(max_events,
\* total) events of the concatenated pages, in the API's order; a page is
\* requested only while fewer than max_events events are held, and paging
\* goes on until the pages are exhausted or max_events is reached.
C18_FirstEventsUpToCap ==
    LET pages == lookInput.pages
        cap == lookInput.max_events
        total == Len(Flatten(pages))
    IN /\ Len(all_events) <= cap
       /\ all_events = FirstEvents(pages, Len(all_events))
       /\ pagesRequested >= 1 => EventsInFirst(pages, pagesRequested - 1) < cap
       /\ (lookPc = "returned" /\ lookResult.kind = "events") =>
            /\ lookResult.events = FirstEvents(pages, Min(cap, total))
            /\ lookResult.events = TakePages(<<>>, pages, cap)
            /\ pagesRequested = Len(pages) \/ Len(lookResult.events) = cap

\* C18 witness: the cap was reached in the middle of the second page, with a
\* third page never requested
C18_Witness ==
    /\ lookPc = "returned"
    /\ lookResult.kind = "events"
    /\ Len(lookInput.pages) = 3
    /\ pagesRequested = 2
    /\ Len(lookInput.pages[1]) = 2
    /\ Len(lookInput.pages[2]) = 2
    /\ Len(lookResult.events) = 3

\* an event carries a resource reference: one of its resources is named
CarriesResource(event) ==
    \E k \in 1..Len(event.resources) : event.resources[k].ResourceName # ""

\* C19 (as claimed): create_least_privilege_role_from_events uses the
\* wildcard resource exactly when no event carries a resource reference, and
\* every result of a provision that created the role with the wildcard flags
\* the fallback.
C19_WildcardOnlyWithoutResourcesAndFlagged ==
    provInput.entry = "from_events" =>
        LET events == provInput.cloudtrail_events
            policy == PermissionPolicy(events)
        IN /\ ("*" \in policy.Resource) <=>
                (\A i \in 1..Len(events) : ~CarriesResource(events[i]))
           /\ \A i \in 1..Len(provLog) :
                ("*" \in policy.Resource /\ Created(i)) =>
                    WildcardFlagged(provLog[i].result)

\* the evidence yields no action: no event has both an action name and a
\* source service
YieldsNoAction(events) ==
    \A i \in 1..Len(events) :
        events[i].event_name = "" \/ events[i].event_source = <<>>

FallbackAction == <<"s3", ":", "GetObject">>

\* C20: the arguments create_least_privilege_role_from_events hands to _run
\* hold a trust statement and exactly one permission statement, whose action
\* set and resource set are not empty; when the evidence yields no action the
\* action set is exactly the fallback action s3:GetObject, and otherwise the
\* fallback is not added.  The statement attached to a created role is that one.
C20_RoleSpecNeverEmpty ==
    provInput.entry = "from_events" =>
        LET events == provInput.cloudtrail_events
            a == RunArgs(provInput)
        IN /\ a.trust_policy # EmptyDoc
           /\ Len(a.permission_policies) = 1
           /\ a.permission_policies[1].Action # {}
           /\ a.permission_policies[1].Resource # {}
           /\ YieldsNoAction(events) =>
                 a.permission_policies[1].Action = {FallbackAction}
           /\ ~YieldsNoAction(events) =>
                 /\ \A act \in a.permission_policies[1].Action :
                       \E i \in 1..Len(events) : act[3] = events[i].event_name
                 /\ FallbackAction \in a.permission_policies[1].Action =>
                       \E i \in 1..Len(events) :
                           /\ events[i].event_name = "GetObject"
                           /\ events[i].event_source # <<>>
           /\ \A i \in 1..Len(provLog) :
                 provLog[i].result.error
                     \notin {"Trust policy is required",
                              "At least one permission policy is required"}
           /\ \A rp \in rolePolicies : rp.doc = a.permission_policies[1]

\* C20 witness: a role was created from events that yield no action, and the
\* statement attached to it holds the fallback action
C20_Witness ==
    /\ provInput.entry = "from_events"
    /\ Len(provInput.cloudtrail_events) >= 1
    /\ YieldsNoAction(provInput.cloudtrail_events)
    /\ \E rp \in rolePolicies : rp.doc.Action = {FallbackAction}

\* the role reference of the invocation, written out
AttemptedRoleRef ==
    <<"arn:aws:iam::", brokerInput.customer_account_id, ":role/",
      brokerInput.cross_account_role_name>>

\* the broker has answered a request that was denied or whose response was
\* malformed
DeniedOrMalformed ==
    /\ stsRequests # <<>>
    /\ stsRequests[1].outcome \in {"AccessDenied", "NoCredentials"}

\* the value returned is an error that carries the role reference and the cause
ReturnsAuthzError(result, cause) ==
    /\ ~result.raised
    /\ result.session = None
    /\ result.role_arn = AttemptedRoleRef
    /\ result.error # NoAssumeError
    /\ result.error.role_arn = AttemptedRoleRef
    /\ result.error.cause = cause

\* C21: an assume invocation issues at most one assume-role request, for the
\* role reference built from the invocation's account id and role name, and
\* when the request is denied or its response is malformed the broker returns
\* (does not raise) an error value carrying the attempted role reference and
\* the cause.
C21_BrokerReturnsAuthzError ==
    /\ Len(stsRequests) <= 1
    /\ \A k \in 1..Len(stsRequests) :
         stsRequests[k].params.RoleArn = AttemptedRoleRef
    /\ DeniedOrMalformed =>
         ReturnsAuthzError(assume_result, stsRequests[1].outcome)

\* an external id was supplied to the invocation (an empty string is none)
ExternalIdSupplied == brokerInput.external_id \notin {None, ""}

\* C22: every assume-role request of an invocation carries the invocation's
\* external id when one was supplied and has no ExternalId parameter
\* otherwise, whichever entry point brokers the credentials (provisioner
\* _run and from_events, collector fetch_events and cleanup_users, policy
\* tool); an invocation given a customer account (and, for the policy tool,
\* no session) does issue the request.
C22_ExternalIdOnEveryAssumeCall ==
    /\ \A k \in 1..Len(stsRequests) :
         stsRequests[k].params.ExternalId =
            IF ExternalIdSupplied THEN brokerInput.external_id ELSE Omitted
    /\ brokerPc \notin {"idle", "assume"} =>
         (Len(stsRequests) = 1) <=> Brokers(brokerInput)

\* C22 witness: from_events was invoked with an external id, the request
\* carrying it was granted and the invocation goes on
C22_Witness ==
    /\ brokerInput.entry = "create_least_privilege_role_from_events"
    /\ brokerInput.external_id = "ext-1"
    /\ brokerPc = "proceeds"
    /\ Len(stsRequests) = 1
    /\ stsRequests[1].params.ExternalId = "ext-1"

Max(a, b) == IF a >= b THEN a ELSE b

\* the max-session-duration the invocation asks for
Requested == RunArgs(provInput).max_session_duration
InRange(d) == MinSessionDuration <= d /\ d <= MaxSessionDuration

\* the remote calls of a list that failed (NoSuchEntity is the expected
\* answer of the existence check)
FailedCalls(calls) ==
    {k \in 1..Len(calls) : calls[k].outcome \notin {"ok", "NoSuchEntity"}}

\* C23: the value sent to create_role is max(3600, min(43200, requested)),
\* a requested value within [3600, 43200] is sent unchanged, the role is
\* created with the value sent, and no error result is due to the requested
\* value: an invocation returns an error only for a validation error or a
\* failed remote call, so an out-of-range request whose remote calls all
\* succeed returns no error.
C23_SessionDurationClamped ==
    \A i \in 1..Len(provLog) :
        LET calls == provLog[i].calls
            result == provLog[i].result
        IN /\ \A k \in 1..Len(calls) :
                calls[k].op = "create_role" =>
                   /\ calls[k].msd =
                          Max(MinSessionDuration, Min(MaxSessionDuration, Requested))
                   /\ InRange(calls[k].msd)
                   /\ InRange(Requested) => calls[k].msd = Requested
           /\ result.status = "success" =>
                result.role_details.msd =
                   Max(MinSessionDuration, Min(MaxSessionDuration, Requested))
           /\ result.error # None =>
                \/ ValidationError(RunArgs(provInput)) # None
                \/ FailedCalls(calls) # {}

\* C23 witness: a request above the maximum was clamped to 43200 and the role
\* was created
C23_Witness ==
    /\ Requested > MaxSessionDuration
    /\ Len(provLog) >= 1
    /\ provLog[1].result.status = "success"
    /\ provLog[1].result.role_details.msd = MaxSessionDuration
    /\ \E k \in 1..Len(provLog[1].calls) :
          /\ provLog[1].calls[k].op = "create_role"
          /\ provLog[1].calls[k].msd = MaxSessionDuration

\* the statuses the if/elif chain names; any other value is unrecognized
RecognizedStatuses == {"success", "failure", "inprogress"}

\* an unrecognized status is among the remembered observations
UnrecognizedSeen ==
    \E k \in 1..Len(observed) :
        observed[k] \notin RecognizedStatuses \cup {"<exception>"}

\* this step is a status call that was answered
Answered == waitPc = "while" /\ polls' = polls + 1 /\ status_response'.seq = polls'

\* an unrecognized status observed within the budget leads to the sleep, with
\* no return and no raise; the sleep lasts one poll interval and leads back
\* to the loop test; a Success observed after an unrecognized status is returned
UnrecognizedIsTransient ==
    /\ (Answered /\ elapsed < max_wait_time
           /\ LowerStatus(status_response') \notin RecognizedStatuses) =>
          (waitPc' = "sleep" /\ waitResult' = waitResult)
    /\ waitPc = "sleep" =>
          (waitPc' = "while" /\ elapsed' = elapsed + poll_interval
             /\ sleeps' = sleeps + 1 /\ polls' = polls)
    /\ (Answered /\ UnrecognizedSeen /\ LowerStatus(status_response') = "success") =>
          /\ waitPc' = "returned"
          /\ waitResult'.kind = "return"
          /\ waitResult'.payload = status_response'

\* a Failure observed after an unrecognized status raises
LaterFailureActedOn ==
    (Answered /\ UnrecognizedSeen /\ LowerStatus(status_response') = "failure") =>
        (waitPc' = "raised" /\ waitResult'.kind = "raise")

\* C24: an unrecognized status is treated as transient (the poller sleeps one
\* poll interval and polls again, without returning or raising while budget
\* remains), and a Success or a Failure observed later is still acted on.
C24_UnrecognizedStatusTransient ==
    [][UnrecognizedIsTransient /\ LaterFailureActedOn]_vars

Yielded == {i \in 1..Len(futures) : futures[i].state = "yielded"}

\* the events of the first k futures that as_completed has handed over
RECURSIVE YieldedEvents(_)
YieldedEvents(k) ==
    IF k = 0 THEN 0
    ELSE YieldedEvents(k - 1)
           + (IF k \in Yielded THEN Len(futures[k].result.events) ELSE 0)

\* nothing is lost or duplicated: the aggregates hold exactly what the
\* futures handed over so far produced
AggregatesExact ==
    /\ Len(users_data) = Cardinality(Yielded)
    /\ \A i \in 1..Len(futures) :
         IF i \in Yielded
         THEN /\ Cardinality(EntriesOf(users_data, iam_users[i])) = 1
              /\ \A k \in EntriesOf(users_data, iam_users[i]) :
                   users_data[k] = EntryFor(iam_users[i], futures[i].result)
              /\ Cardinality({k \in 1..Len(errors) : errors[k][2] = iam_users[i]})
                    = IF Failed(i) THEN 1 ELSE 0
         ELSE /\ EntriesOf(users_data, iam_users[i]) = {}
              /\ \A k \in 1..Len(errors) : errors[k][2] # iam_users[i]
    /\ Len(errors) = Cardinality({i \in Yielded : Failed(i)})
    /\ total_events = YieldedEvents(Len(futures))

\* a step that writes an aggregate is a turn of the calling thread's
\* as_completed loop taking over exactly one finished future; a step of a
\* worker thread (a future starting or finishing) writes none of them
SingleWriter ==
    /\ <<users_data, errors, total_events>> # <<users_data', errors', total_events'>> =>
         /\ fetPc = "as_completed"
         /\ \E i \in 1..Len(futures) :
              /\ futures[i].state = "done"
              /\ futures' = [futures EXCEPT ![i].state = "yielded"]
    /\ (\E i \in 1..Len(futures) :
            futures[i].state \in {"queued", "running"} /\ futures'[i] # futures[i]) =>
         <<users_data, errors, total_events>> = <<users_data', errors', total_events'>>

\* C25: during the fan-out the results list, the errors list and the event
\* total are written only by the calling thread, one finished future at a
\* time and never by a worker, so that in every interleaving of worker
\* completions no entry or error is lost or duplicated.
C25_AggregateWritesExclusive == []AggregatesExact /\ [][SingleWriter]_vars

\* C25 witness: two tasks had finished before either was taken over; the
\* second principal's failed task has been recorded first while the first
\* principal's future still waits
C25_Witness ==
    /\ fetPc = "as_completed"
    /\ Len(futures) >= 2
    /\ futures[1].state = "done"
    /\ futures[2].state = "yielded"
    /\ Len(users_data) = 1
    /\ users_data[1].username = iam_users[2]
    /\ Len(errors) = 1

\* an event source without its '.amazonaws.com' suffix
StripSuffix(source) ==
    IF source # <<>> /\ source[Len(source)] = AwsSuffix
    THEN SubSeq(source, 1, Len(source) - 1)
    ELSE source

\* the distinct '<service>:<action name>' identifiers of the events that have
\* both an action name and a source service
NamedActions(events) ==
    { StripSuffix(events[i].event_source) \o <<":", events[i].event_name>> :
        i \in { j \in 1..Len(events) :
                  events[j].event_name # "" /\ events[j].event_source # <<>> } }

\* the distinct resource names the events refer to
NamedResources(events) ==
    UNION { { events[i].resources[k].ResourceName :
                k \in 1..Len(events[i].resources) } :
            i \in 1..Len(events) } \ {""}

\* C26: the action set is the set of distinct '<service>:<action name>'
\* identifiers over the events having both an action name and a source
\* service, the service being the source without '.amazonaws.com'; the
\* resource set is the set of distinct resource names of the events (the
\* wildcard standing in when there is none); these sets are the statement's
\* Action and Resource (the fallback action standing in when there is no
\* action); 5 events naming 2 distinct actions and 1 resource give exactly 2
\* actions and 1 resource.
C26_ActionsAndResourcesDerived ==
    /\ synthPc = "for" =>
         synthActions = NamedActions(SubSeq(synthInput, 1, synthIdx - 1))
    /\ synthPc = "built" =>
         LET named == NamedActions(synthInput)
             names == NamedResources(synthInput)
         IN /\ synthActions = named
            /\ synthResources = IF names = {} THEN {"*"} ELSE names
            /\ synthPolicy.Action = IF named = {} THEN {FallbackAction} ELSE named
            /\ synthPolicy.Resource = synthResources
            /\ synthPolicy = PermissionPolicy(synthInput)
            /\ (Len(synthInput) = 5 /\ Cardinality(named) = 2
                  /\ Cardinality(names) = 1) =>
                 /\ Cardinality(synthPolicy.Action) = 2
                 /\ Cardinality(synthPolicy.Resource) = 1
                 /\ "*" \notin synthPolicy.Resource

\* C26 witness: 5 events naming s3:GetObject and s3:PutObject and the one
\* resource bucket1 have been analysed
C26_Witness ==
    /\ synthPc = "built"
    /\ Len(synthInput) = 5
    /\ synthPolicy.Action = {<<"s3", ":", "GetObject">>, <<"s3", ":", "PutObject">>}
    /\ synthPolicy.Resource = {"bucket1"}

\* the event's detail payload is present and json.loads cannot parse it
ParseFails(event) ==
    /\ event.CloudTrailEvent # None
    /\ JsonLoads(event.CloudTrailEvent).exc # None

\* the record has the event's flat fields and no detail-derived field
FlatOnly(record, event) ==
    /\ record.event_id = event.EventId
    /\ record.event_name = event.EventName
    /\ record.event_source = event.EventSource
    /\ record.username = event.Username
    /\ record.resources = event.Resources
    /\ record.event_version = None
    /\ record.request_parameters = None
    /\ record.request_id = None

\* C27: an event whose detail payload is present but cannot be parsed is
\* still appended, with its flat fields and with every detail-derived field
\* None; it never ends the task with an exception, and the task goes on to
\* the following events, returning the first min(max_events, total) events.
C27_ParseFailureTolerated ==
    LET trail == Flatten(lookInput.pages)
        failing == {k \in 1..Len(trail) : ParseFails(trail[k])}
    IN /\ \A k \in 1..Len(all_events) :
            k \in failing => FlatOnly(all_events[k], trail[k])
       /\ (lookPc = "raised" \/ lookResult.kind = "exception") =>
            /\ failing = {}
            /\ \E k \in 1..Len(trail) : trail[k].CloudTrailEvent = ArrayText
       /\ (failing # {} /\ lookPc = "returned" /\ lookResult.kind = "events") =>
            /\ Len(lookResult.events) = Min(lookInput.max_events, Len(trail))
            /\ \A k \in 1..Len(lookResult.events) :
                 IF k \in failing THEN FlatOnly(lookResult.events[k], trail[k])
                 ELSE lookResult.events[k] = EventData(trail[k])

\* C27 witness: the first event's payload could not be parsed, and the task
\* returned it together with a following event whose details were merged
C27_Witness ==
    /\ lookPc = "returned"
    /\ lookResult.kind = "events"
    /\ Len(lookResult.events) >= 2
    /\ ParseFails(Flatten(lookInput.pages)[1])
    /\ lookResult.events[1].event_version = None
    /\ lookResult.events[2].event_version = "1.08"

\* this step is a status call that raised
CallRaised == waitPc = "while" /\ polls' = polls + 1 /\ status_response' = status_response

\* an exception of a status call within the budget leads to the sleep without
\* ending the wait, the sleep lasts one poll interval and leads back to the
\* loop test; an exception of the final check ends the wait with that
\* exception raised
ExceptionHandling ==
    /\ (CallRaised /\ elapsed < max_wait_time) =>
          (waitPc' = "sleep" /\ waitResult' = waitResult)
    /\ waitPc = "sleep" =>
          (waitPc' = "while" /\ elapsed' = elapsed + poll_interval /\ polls' = polls)
    /\ (CallRaised /\ elapsed >= max_wait_time) =>
          /\ waitPc' = "raised"
          /\ waitResult' = [kind |-> "raise", from |-> "final", payload |-> NoResponse]

\* a wait that ended raised did so at the final check, after the whole budget
\* and one sleep per poll of the loop
RaisesOnlyAfterBudget ==
    waitPc = "raised" =>
        /\ waitResult.kind = "raise" /\ waitResult.from = "final"
        /\ elapsed >= max_wait_time
        /\ sleeps = MaxLoopPolls
        /\ polls = MaxLoopPolls + 1

\* C28: an exception of the status call in the polling loop is swallowed and
\* the call is retried after one poll interval, like a transient status; an
\* exception of the final check propagates; so the wait raises only after
\* the full budget, in particular when every status call errors.
C28_LoopExceptionsSwallowed == []RaisesOnlyAfterBudget /\ [][ExceptionHandling]_vars

\* C28 witness: every status call raised, and the wait ended with the
\* exception of the final check after 30 swallowed ones
C28_Witness ==
    /\ waitPc = "raised"
    /\ status_response = NoResponse
    /\ waitResult.payload = NoResponse
    /\ polls = MaxLoopPolls + 1
    /\ elapsed = max_wait_time


\* a job id was returned by the submission
JobIdPresent == ~submit_response.raised /\ submit_response.job_id \notin {None, ""}

\* the status the poller handed back, case folded as the caller folds it
FinalStatusName ==
    CASE waitResult.payload.status = "Success"    -> "success"
      [] waitResult.payload.status = "Completed"  -> "completed"
      [] waitResult.payload.status = "Failure"    -> "failure"
      [] waitResult.payload.status = "InProgress" -> "inprogress"
      [] OTHER                                   -> ""

\* the poller gave up on its budget and handed back a status that is neither
\* success, completed nor failure
TimedOutNonTerminal ==
    /\ waitPc = "returned"
    /\ waitResult.from = "final"
    /\ FinalStatusName \in {"inprogress", ""}

\* C29: in create_policy and rescan no status call is made before the job is
\* submitted; a submission response without a job id is returned as it is and
\* no status call is ever made; with a job id, the returned success flag is
\* true exactly when the poller's final status is 'success' or 'completed',
\* so a job that timed out while still non-terminal is returned with success
\* false.
C29_ActivationSuccessFlag ==
    /\ (actPc = "idle" => (polls = 0 /\ waitPc = "idle"))
    /\ (polls > 0 => JobIdPresent)
    /\ ((actPc = "returned" /\ ~JobIdPresent) =>
            /\ actResult.kind = "raw_response"
            /\ polls = 0 /\ waitPc = "idle")
    /\ ((actPc = "returned" /\ JobIdPresent) =>
            /\ actResult.kind = "combined"
            /\ waitPc = "returned"
            /\ actResult.final_status = waitResult.payload
            /\ (actResult.success <=> FinalStatusName \in {"success", "completed"})
            /\ (TimedOutNonTerminal => ~actResult.success))

C29_Witness ==
    /\ actPc = "returned" /\ JobIdPresent /\ TimedOutNonTerminal
    /\ waitResult.payload.status = "InProgress"
    /\ actResult.kind = "combined" /\ ~actResult.success


\* the sum of the lengths of the entries' event lists
RECURSIVE EventsIn(_)
EventsIn(data) ==
    IF data = <<>> THEN 0 ELSE Len(Head(data).events) + EventsIn(Tail(data))

\* fetch_events has returned after the account's users were obtained
ReachedCollection ==
    /\ fetResult.returned
    /\ fetResult.action = "fetch_events"
    /\ fetResult.error = None

\* the entries of the report that carry an error
ErroredEntries ==
    {k \in 1..Len(fetResult.users_data) : fetResult.users_data[k].error # None}

\* C30: once a fetch_events run that reached collection has returned, the
\* summary agrees with the entries: total_users_processed is the number of
\* users_data entries, total_events_found is the sum of the lengths of their
\* event lists, users_with_activity plus users_without_activity is
\* total_users_processed, and every entry that carries an error has its
\* principal's error in the report's errors.
C30_ReportSummaryConsistent ==
    ReachedCollection =>
        /\ fetResult.summary.total_users_processed = Len(fetResult.users_data)
        /\ fetResult.summary.total_events_found = EventsIn(fetResult.users_data)
        /\ fetResult.summary.users_with_activity
             + fetResult.summary.users_without_activity
                = fetResult.summary.total_users_processed
        /\ \A k \in ErroredEntries :
              \E e \in 1..Len(fetResult.errors) :
                  fetResult.errors[e][2] = fetResult.users_data[k].username
        /\ Len(fetResult.errors) >= Cardinality(ErroredEntries)

\* C30 witness: a returned report with a principal that has events and a
\* principal whose collection failed
C30_Witness ==
    /\ ReachedCollection
    /\ Len(fetResult.users_data) >= 2
    /\ ErroredEntries # {}
    /\ fetResult.summary.total_events_found > 0
    /\ fetResult.summary.users_with_activity > 0
    /\ fetResult.summary.users_without_activity > 0

====
